---- MODULE Spec2Model ----
(***************************************************************************)
(* A model of the synchronization engine of scriptone4:                    *)
(*   - memento_sdk._get_with_backoff        (resilient fetch client)       *)
(*   - memento_sdk.fetch_all_entries_full   (pagination walker)            *)
(*   - memento_sdk.fetch_incremental        (incremental page loop)        *)
(*   - memento_import.import_library_incremental / _insert_chunk /         *)
(*     save_sync_state / _ensure_table_schema (sync engine, upsert writer) *)
(* Each component has its own specification (SpecBackoff, SpecWalker,      *)
(* SpecSync, SpecUpsert); the variables of the other components stay at    *)
(* their initial values.  SpecUpsert writes the table of the sync engine.  *)
(***************************************************************************)
EXTENDS Integers, Sequences, FiniteSets, Bags, TLC

VARIABLES
    \* ---- _get_with_backoff ----
    bpc,        \* "idle" | "loop" | "returned" | "raised"
    tries,      \* local `tries`
    r,          \* local `r`: the last response object received (NoResp = None)
    last_exc,   \* local `last_exc`: attempt number of the stored exception, 0 = None
    hist,       \* what the endpoint did on every attempt, in order: the status
                \* code it answered with, or 0 for a network-level exception
    nreq,       \* number of requests.get calls issued by this call
    slept,      \* argument of the last time.sleep, in tenths of a second
    bresult     \* what the call handed to its caller

bvars == <<bpc, tries, r, last_exc, hist, nreq, slept, bresult>>

VARIABLES
    \* ---- fetch_all_entries_full / fetch_incremental ----
    src,        \* the remote collection the walk runs against (fixed during a walk)
    wfun,       \* which function walks: "full" | "incremental"
    wlimit,     \* parameter `limit`
    wpc,        \* "idle" | "request" | "done" | "raised"
    wreq,       \* locals `url` and `params`: the request the loop sends next
    all_rows,   \* local `all_rows` (fetch_all_entries_full) / `rows` (fetch_incremental)
    visited     \* index of the remote page served for each request sent, in order

wvars == <<src, wfun, wlimit, wpc, wreq, all_rows, visited>>

VARIABLES
    \* ---- import_library_incremental ----
    remote,     \* the remote library: record id -> its "modified" time (0: no such key)
    status,     \* record id -> the "status" the remote flags it with: "active" | "trash"
    schema,     \* which schema _ensure_table_schema creates: "csv_pk" | "csv_nopk" | "fallback"
    serverFilter, \* the server honours updatedAfter/createdAfter (probe_capabilities)
    spc,        \* "idle" | "fetch" | "insert" | "commit" | "checkpoint" | "done" | "failed"
    lmr,        \* local `last_modified_remote`: the checkpoint loaded at the start, 0 = None
    todo,       \* records the page generator has still to yield in this run
    chunk,      \* loop variable `chunk`: the page being processed (record ids)
    page_no,    \* local `page_no`
    inserted,   \* local `inserted`
    table,      \* the rows of the target table (a bag of rows)
    ckpt,       \* memento_sync.last_modified_remote of this library, 0 = no row
    runs,       \* number of runs started so far
    gotten,     \* records the generator has yielded in the current run
    ckptChunk,  \* the page whose last record gave the stored checkpoint
    ckpt0,      \* the checkpoint at the start of the run that was interrupted
    resumed     \* the current run follows an interrupted one

svars == <<remote, status, schema, serverFilter, spc, lmr, todo, chunk, page_no, inserted,
           table, ckpt, runs, gotten, ckptChunk, ckpt0, resumed>>

VARIABLES
    \* ---- _insert_chunk applied to one page twice ----
    upc,        \* "idle" | "once" | "twice"
    once        \* the rows of the target table after the first write of the page

uvars == <<upc, once>>

VARIABLES
    \* ---- run_batch ----
    batch_pc,       \* "idle" | "section" | "import" | "returned" | "raised"
    nsections,      \* len(batch_cfg)
    section,        \* position of the for loop in batch_cfg (0 before the first)
    cfg,            \* what the code reads of the current section's cfg
    total_inserted, \* local `total_inserted`
    lib_inserted,   \* `inserted` of the import_library_incremental in progress
    lib_pages,      \* pages the generator has yielded to that import
    requested,      \* sections for which a network request was issued
    written,        \* per section, the number of records written to its table
    noId,           \* sections whose cfg has neither library_id nor library
    fullMode,       \* sections taken by the loop whose sync is not "incremental"
    batch_result    \* what run_batch returned (-1: nothing yet)

kvars == <<batch_pc, nsections, section, cfg, total_inserted, lib_inserted, lib_pages,
           requested, written, noId, fullMode, batch_result>>

VARIABLES
    \* ---- _autodetect_enrich_details ----
    apc,        \* "idle" | "done": a call has returned and its result is at hand
    signature,  \* signature of the reference export's header (0: no header found)
    cache,      \* enrich_autodetect.json: the entry of this section
    probe,      \* what the probe of the last call fetched and how it compares
    probed,     \* the last call issued the probe request
    det         \* the dict the last call returned

avars == <<apc, signature, cache, probe, probed, det>>

VARIABLES
    \* ---- _ensure_table_schema, as import_library_incremental calls it ----
    exists,     \* the target table is in sqlite_master
    tcols,      \* its columns: records of name, declared type and PRIMARY KEY flag
    seen,       \* the field names carried by the records of the last import run
    imp         \* how the last import run ended: "none" | "ok" | "schema_error"

tvars == <<exists, tcols, seen, imp>>

VARIABLES
    \* ---- _entry_to_row ----
    rpc,        \* "ready" | "mapped"
    entry,      \* the record handed to _entry_to_row
    header,     \* the header column looked up
    out         \* the row it returned: the column's value and raw_json

rvars == <<rpc, entry, header, out>>

VARIABLES
    \* ---- diagnostic output of the fetch layer ----
    dpc,        \* "idle" | "attempt" | "returned" | "answered"
    dtry,       \* tries: the attempts made so far
    dstatus,    \* status of the response _get_with_backoff returned (0: none)
    dreq,       \* the request at hand: its url (with query) and its params
    debug,      \* MEMENTO_DEBUG_HTTP is on
    diag        \* the texts printed or raised for the request at hand

dvars == <<dpc, dtry, dstatus, dreq, debug, diag>>

VARIABLES
    \* ---- probe_capabilities and the requests of fetch_incremental ----
    ppc,        \* "idle" | "probing" | "probed" | "raised" | "paging"
    pidx,       \* the probe request to make next: its index in ProbePlan
    answers,    \* how each probe request made so far was answered
    caps,       \* the capability record being filled
    wm,         \* modified_after_iso is given
    sent        \* the parameter names of each page request sent so far

pvars == <<ppc, pidx, answers, caps, wm, sent>>

VARIABLES
    \* ---- _insert_chunk with the fail-fast test of enrichment ----
    ipc,        \* "idle" | "released" | "raised"
    ichunk,     \* the page handed to _insert_chunk, as its mapped rows
    enrich,     \* enrich_details of the run
    itable      \* the target table: the stored header values of each id

ivars == <<ipc, ichunk, enrich, itable>>

VARIABLES
    \* ---- the detail pass of fetch_incremental against the local rows ----
    xpc,        \* "idle" | "fetched"
    xremote,    \* modification time of each remote record (0: no such record)
    xlocal,     \* modification time stored in the local row of each id (0: no row)
    xwm,        \* modified_after_iso: the checkpoint of the library (0: none)
    xfilter,    \* caps["accepts_updatedAfter"] or caps["accepts_createdAfter"]
    xlean,      \* the first list item has no "fields"
    detailed    \* the ids a detail request was issued for

xvars == <<xpc, xremote, xlocal, xwm, xfilter, xlean, detailed>>

\* fetch_entry_detail: position, the candidate paths requested so far, the
\* answer each one got, and what the call gave back to its caller.
VARIABLES fpc, tried, replies, got
fvars == <<fpc, tried, replies, got>>

VARIABLES
    \* ---- the checkpoint table shared by the sections of a batch ----
    ypc,          \* "idle" | "import": an import_library_incremental is running
    library_id,   \* the library of the section being imported (0: none)
    memento_sync, \* the rows of memento_sync, in rowid order
    loaded        \* what load_sync_state returned to that import (0: None)

yvars == <<ypc, library_id, memento_sync, loaded>>

vars == <<bvars, wvars, svars, uvars, kvars, avars, tvars, rvars, dvars, pvars, ivars, xvars, fvars, yvars>>

\* what the actions of one component leave alone
othersB == <<wvars, svars, uvars, kvars, avars, tvars, rvars, dvars, pvars, ivars, xvars, fvars, yvars>>
othersW == <<bvars, svars, uvars, kvars, avars, tvars, rvars, dvars, pvars, ivars, xvars, fvars, yvars>>
othersS == <<bvars, wvars, uvars, kvars, avars, tvars, rvars, dvars, pvars, ivars, xvars, fvars, yvars>>
othersU == <<bvars, wvars, kvars, avars, tvars, rvars, dvars, pvars, ivars, xvars, fvars, yvars, remote, status, schema, serverFilter, spc, lmr, todo, page_no,
             inserted, ckpt, runs, gotten, ckptChunk, ckpt0, resumed>>
othersK == <<bvars, wvars, svars, uvars, avars, tvars, rvars, dvars, pvars, ivars, xvars, fvars, yvars>>
othersA == <<bvars, wvars, svars, uvars, kvars, tvars, rvars, dvars, pvars, ivars, xvars, fvars, yvars>>
othersT == <<bvars, wvars, svars, uvars, kvars, avars, rvars, dvars, pvars, ivars, xvars, fvars, yvars>>
othersR == <<bvars, wvars, svars, uvars, kvars, avars, tvars, dvars, pvars, ivars, xvars, fvars, yvars>>
othersD == <<bvars, wvars, svars, uvars, kvars, avars, tvars, rvars, pvars, ivars, xvars, fvars, yvars>>
othersP == <<bvars, wvars, svars, uvars, kvars, avars, tvars, rvars, dvars, ivars, xvars, fvars, yvars>>
othersI == <<bvars, wvars, svars, uvars, kvars, avars, tvars, rvars, dvars, pvars, xvars, fvars, yvars>>
othersX == <<bvars, wvars, svars, uvars, kvars, avars, tvars, rvars, dvars, pvars, ivars, fvars, yvars>>
othersF == <<bvars, wvars, svars, uvars, kvars, avars, tvars, rvars, dvars, pvars, ivars, xvars, yvars>>
othersY == <<bvars, wvars, svars, uvars, kvars, avars, tvars, rvars, dvars, pvars, ivars, xvars, fvars>>

(***************************************************************************)
(* Resilient fetch client: memento_sdk._get_with_backoff                   *)
(***************************************************************************)

\* default of the max_tries parameter; no caller overrides it
MaxTries == 8
\* base_sleep = 0.8 and max_sleep = 20.0, in tenths of a second
BaseSleep == 8
MaxSleep == 200

\* status codes the endpoint may answer with: a success, terminal client
\* errors (in and out of the explicit list), the retryable ones
Statuses == {200, 404, 418, 429, 503}

\* Retry-After header of a retryable response: absent, delay-seconds
\* (in tenths of a second), or text float() cannot parse (an HTTP-date)
RetryAfterVals == {"absent", "0", "30", "date"}

\* samples of random.uniform(0, 0.4), in tenths of a second
Jitter == {0, 2, 4}

NoResp == [att |-> 0, status |-> 0, retry_after |-> "absent"]
NoResult == [kind |-> "none", att |-> 0, status |-> 0]

Min(a, b) == IF a < b THEN a ELSE b

RECURSIVE Pow2(_)
Pow2(n) == IF n = 0 THEN 1 ELSE 2 * Pow2(n - 1)

\* the loop gives up one attempt early
LoopGuard_OneShort(t) == t + 1 < MaxTries

\* the loop allows one attempt too many
LoopGuard_OneMore(t) == t <= MaxTries

\* while tries < max_tries
LoopGuard(t) == t < MaxTries

\* r.status_code < 400 or r.status_code in (400,401,403,404)
ReturnsAtOnce(s) == s < 400 \/ s \in {400, 401, 403, 404}

\* every error status is retried, the client errors too
IsRetryable_AnyError(s) == 400 <= s /\ s < 600 /\ s \notin {400, 401, 403, 404}

\* r.status_code == 429 or 500 <= r.status_code < 600
IsRetryable(s) == s = 429 \/ (500 <= s /\ s < 600)

\* min(max_sleep, base_sleep * (2 ** tries))
ExpDelay(t) == Min(MaxSleep, BaseSleep * Pow2(t))

\* float(retry_after), in tenths; -1 stands for sleep_s = None (float() raised)
ParseRetryAfter(h) == CASE h = "0" -> 0 [] h = "30" -> 30 [] OTHER -> -1

\* the delay of a retryable response: lines 27-35
\*   retry_after truthy -> float(retry_after) or None ; else exponential + jitter
\*   time.sleep(sleep_s or 1.0)
RetryDelay(h, t, j) ==
    LET sleep_s == IF h # "absent" THEN ParseRetryAfter(h) ELSE ExpDelay(t) + j
    IN  IF sleep_s = -1 \/ sleep_s = 0 THEN 10 ELSE sleep_s

\* lines 45-47: if r is None and last_exc: raise last_exc ; return r
ExitResult(resp, exc) ==
    IF resp = NoResp /\ exc # 0
    THEN [kind |-> "raise", att |-> exc, status |-> 0]
    ELSE [kind |-> "return", att |-> resp.att, status |-> resp.status]

BackoffInit ==
    /\ bpc = "idle"
    /\ tries = 0
    /\ r = NoResp
    /\ last_exc = 0
    /\ hist = <<>>
    /\ nreq = 0
    /\ slept = 0
    /\ bresult = NoResult

\* a caller enters _get_with_backoff: lines 12-14
BackoffCall ==
    /\ bpc = "idle"
    /\ bpc' = "loop"
    /\ tries' = 0
    /\ r' = NoResp
    /\ last_exc' = 0
    /\ hist' = <<>>
    /\ nreq' = 0
    /\ slept' = 0
    /\ bresult' = NoResult
    /\ UNCHANGED othersB

\* one pass of the loop body whose requests.get returns a response: lines 23-39
AttemptResponse ==
    /\ bpc = "loop"
    /\ LoopGuard(tries)
    /\ \E s \in Statuses, h \in RetryAfterVals, j \in Jitter :
         LET resp == [att |-> nreq + 1, status |-> s,
                      retry_after |-> IF IsRetryable(s) THEN h ELSE "absent"] IN
         /\ nreq' = nreq + 1
         /\ r' = resp
         /\ IF ReturnsAtOnce(s) \/ ~IsRetryable(s)
            THEN /\ bpc' = "returned"
                 /\ bresult' = [kind |-> "return", att |-> resp.att, status |-> s]
                 /\ hist' = Append(hist, s)
                 /\ UNCHANGED <<tries, last_exc, slept>>
            ELSE /\ slept' = RetryDelay(h, tries, j)
                 /\ tries' = tries + 1
                 /\ last_exc' = 0
                 /\ hist' = Append(hist, s)
                 /\ UNCHANGED <<bpc, bresult>>
    /\ UNCHANGED othersB

\* one pass of the loop body whose requests.get raises RequestException: lines 40-44
AttemptException ==
    /\ bpc = "loop"
    /\ LoopGuard(tries)
    /\ nreq' = nreq + 1
    /\ last_exc' = nreq + 1
    /\ slept' = ExpDelay(tries)
    /\ tries' = tries + 1
    /\ hist' = Append(hist, 0)
    /\ UNCHANGED <<bpc, r, bresult>>
    /\ UNCHANGED othersB

\* the loop condition fails: lines 45-47
BackoffExit ==
    /\ bpc = "loop"
    /\ ~LoopGuard(tries)
    /\ bresult' = ExitResult(r, last_exc)
    /\ bpc' = IF bresult'.kind = "raise" THEN "raised" ELSE "returned"
    /\ UNCHANGED <<tries, r, last_exc, hist, nreq, slept>>
    /\ UNCHANGED othersB

\* the caller takes the outcome and the locals of the call are gone; the
\* next call may begin
BackoffDone ==
    /\ bpc \in {"returned", "raised"}
    /\ bpc' = "idle"
    /\ tries' = 0
    /\ r' = NoResp
    /\ last_exc' = 0
    /\ hist' = <<>>
    /\ nreq' = 0
    /\ slept' = 0
    /\ bresult' = NoResult
    /\ UNCHANGED othersB

BackoffNext == BackoffCall \/ AttemptResponse \/ AttemptException \/ BackoffExit \/ BackoffDone

BackoffEnded == bpc \in {"returned", "raised"}

\* the endpoint answered the first k attempts with 429 or 5xx
FirstKRetryable(k) ==
    /\ Len(hist) >= k
    /\ \A i \in 1..k : IsRetryable(hist[i])

\* C8: for every k < max_tries, when the endpoint answers 429/5xx on the first
\* k attempts, the call does not end before attempt k+1 is made, and when
\* attempt k+1 is answered with a success the call returns that very response
\* after exactly k+1 requests.
C8_SuccessAfterKRetries ==
    \A k \in 0..(MaxTries - 1) :
        (BackoffEnded /\ FirstKRetryable(k)) =>
            /\ Len(hist) >= k + 1
            /\ (hist[k + 1] < 400 /\ hist[k + 1] # 0) =>
                  /\ bresult = [kind |-> "return", att |-> k + 1, status |-> hist[k + 1]]
                  /\ nreq = k + 1
                  /\ Len(hist) = k + 1

\* three retryable answers, then a success that is returned
C8_Witness ==
    /\ bpc = "returned"
    /\ hist = <<429, 503, 429, 200>>
    /\ bresult = [kind |-> "return", att |-> 4, status |-> 200]

\* C9 (state part): one call never issues more than max_tries requests, and
\* when the endpoint answered max_tries attempts in a row with 429/5xx the
\* call ends by returning the response of the last of them.
C9_Bounded ==
    /\ nreq <= MaxTries
    /\ tries <= MaxTries
    /\ (BackoffEnded /\ FirstKRetryable(MaxTries)) =>
          bresult = [kind |-> "return", att |-> MaxTries, status |-> hist[MaxTries]]

\* C9 (step part): every pass of the loop either ends the call or uses up one
\* of the max_tries attempts, so the loop cannot run forever.
C9_Progress ==
    (bpc = "loop") => (bpc' # "loop" \/ (tries' = tries + 1 /\ nreq' = nreq + 1))

\* C9: _get_with_backoff issues at most max_tries requests per call, always
\* terminates, and after max_tries consecutive 429/5xx answers it surfaces the
\* last of them to the caller.
C9_RetryBound == [](C9_Bounded) /\ [][C9_Progress]_vars

\* max_tries retryable answers in a row, the last one a 503, which is returned
C9_Witness ==
    /\ bpc = "returned"
    /\ FirstKRetryable(MaxTries)
    /\ hist[MaxTries] = 503
    /\ nreq = MaxTries
    /\ bresult = [kind |-> "return", att |-> MaxTries, status |-> 503]

\* C10: whenever the call exhausts its attempts and the last attempt ended in
\* a network-level exception, the call raises that last exception, whatever
\* the earlier attempts ended in.
C10_LastExceptionRaised ==
    (BackoffEnded /\ Len(hist) = MaxTries /\ tries = MaxTries /\ hist[MaxTries] = 0) =>
        bresult = [kind |-> "raise", att |-> MaxTries, status |-> 0]


\* C34: after a retryable response the delay waited is the numeric
\* Retry-After value it carried, 0 included; with no Retry-After header it is
\* the exponential delay, which is at most max_sleep.
C34_RetryAfterIsTheDelay ==
    (bpc = "loop" /\ r # NoResp /\ r.att = nreq /\ IsRetryable(r.status)) =>
        /\ ParseRetryAfter(r.retry_after) >= 0 => slept = ParseRetryAfter(r.retry_after)
        /\ r.retry_after = "absent" => slept <= MaxSleep

\* C11: every response with a 4xx status other than 429 is returned to the
\* caller of _get_with_backoff after that single request: no attempt follows
\* it (it is never retried) and the call ends by returning it, not by raising.
C11_ClientErrorTerminal ==
    \A i \in 1..Len(hist) :
        (400 <= hist[i] /\ hist[i] < 500 /\ hist[i] # 429) =>
            /\ i = Len(hist)
            /\ nreq = i
            /\ bpc = "returned"
            /\ bresult = [kind |-> "return", att |-> i, status |-> hist[i]]

\* a 418 (a client error outside the explicit list) answered to the third
\* attempt, after a 503 and a network exception, and returned
C11_Witness ==
    /\ hist = <<503, 0, 418>>
    /\ bpc = "returned"
    /\ bresult = [kind |-> "return", att |-> 3, status |-> 418]

(***************************************************************************)
(* Pagination walker: memento_sdk.fetch_all_entries_full and the page loop *)
(* of memento_sdk.fetch_incremental                                        *)
(***************************************************************************)

\* largest collection, largest `limit` and longest walk that are explored
MaxRecords == 4
MaxLimit == 2
MaxRequests == 5

\* absent key of a response (data.get(...) is None)
None == -1

Signals == {"next", "token", "offset", "page"}

\* the remote collections: which pagination signals the responses carry,
\* whether page numbers start at 0 or 1, whether the server ignores the
\* requested position and answers the first page every time (static), how
\* many records there are, how many of them (the first leanFrom) carry a
\* fields payload in the list view, and how many records at the head of a
\* page repeat the tail of the page before it (overlap)
Sources ==
    [signals : SUBSET Signals, pageBase : {0, 1}, static : BOOLEAN,
     nrec : 0..MaxRecords, leanFrom : {0, 1, MaxRecords}, overlap : {0, 1}]

\* number of pages of `lim` records the collection has (an empty collection
\* still answers with one, empty, page)
NPages(sr, lim) == IF sr.nrec = 0 THEN 1 ELSE (sr.nrec + lim - 1) \div lim

\* the list item of record n
Item(sr, n) == [id |-> n, fields |-> n <= sr.leanFrom, detail |-> FALSE]

\* the per-record detail of a list item: GET .../entries/{eid}
Detail(e) == [id |-> e.id, fields |-> TRUE, detail |-> TRUE]

\* the records of page i (numbered from 0)
PageRows(sr, lim, i) ==
    LET lo == i * lim + 1 - (IF i > 0 THEN sr.overlap ELSE 0)
        hi == Min((i + 1) * lim, sr.nrec)
    IN  [k \in 1..(IF hi >= lo THEN hi - lo + 1 ELSE 0) |-> Item(sr, lo + k - 1)]

\* the first request of both walkers: no position parameter, the credential
\* token from _token_params()
FirstRequest == [kind |-> "first", arg |-> 0, cred |-> TRUE, linkHadToken |-> TRUE]

\* the page the server serves for a request
PageIndex(sr, lim, req) ==
    IF sr.static THEN 0
    ELSE CASE req.kind = "first"  -> 0
           [] req.kind = "next"   -> req.arg
           [] req.kind = "token"  -> req.arg
           [] req.kind = "offset" -> req.arg \div lim
           [] req.kind = "page"   -> req.arg - sr.pageBase

\* the JSON body the server answers a request with
Response(sr, lim, req) ==
    LET i    == PageIndex(sr, lim, req)
        more == i + 1 < NPages(sr, lim) \/ sr.static
    IN  [rows   |-> PageRows(sr, lim, i),
         index  |-> i,
         next   |-> IF "next" \in sr.signals /\ more THEN i + 1 ELSE None,
         token  |-> IF "token" \in sr.signals /\ more THEN i + 1 ELSE None,
         total  |-> IF "offset" \in sr.signals THEN sr.nrec ELSE None,
         offset |-> IF "offset" \in sr.signals THEN i * lim ELSE None,
         page   |-> IF "page" \in sr.signals THEN i + sr.pageBase ELSE None,
         pages  |-> IF "page" \in sr.signals THEN NPages(sr, lim) ELSE None]

Stop == [kind |-> "stop", arg |-> 0, cred |-> TRUE, linkHadToken |-> TRUE]

\* the next-link is followed as the server supplied it
ReattachToken_LinkAsServed(inQuery) == inQuery

\* lines 297-299: q is the query of the next-link;
\* if "token" not in q: q.update(_token_params())
ReattachToken(inQuery) == IF ~inQuery THEN TRUE ELSE inQuery

\* the continuation token is looked at before the next-link
FullNext_TokenFirst(resp, lim, linkCred) ==
    IF resp.token # None
    THEN [kind |-> "token", arg |-> resp.token, cred |-> TRUE, linkHadToken |-> TRUE]
    ELSE IF resp.next # None
    THEN [kind |-> "next", arg |-> resp.next, cred |-> ReattachToken(linkCred),
          linkHadToken |-> linkCred]
    ELSE IF resp.total # None /\ resp.offset # None
    THEN LET n_off == resp.offset + lim
         IN  IF n_off >= resp.total THEN Stop
             ELSE [kind |-> "offset", arg |-> n_off, cred |-> TRUE, linkHadToken |-> TRUE]
    ELSE IF resp.page # None /\ resp.pages # None
    THEN IF resp.page + 1 >= resp.pages THEN Stop
         ELSE [kind |-> "page", arg |-> resp.page + 1, cred |-> TRUE, linkHadToken |-> TRUE]
    ELSE Stop

\* fetch_all_entries_full, lines 287-330: the request that follows a response,
\* or Stop for `break`. linkCred: the next-link's query string has the token.
FullNext(resp, lim, linkCred) ==
    IF resp.next # None
    THEN [kind |-> "next", arg |-> resp.next, cred |-> ReattachToken(linkCred),
          linkHadToken |-> linkCred]
    ELSE IF resp.token # None
    THEN [kind |-> "token", arg |-> resp.token, cred |-> TRUE, linkHadToken |-> TRUE]
    ELSE IF resp.total # None /\ resp.offset # None
    THEN LET n_off == resp.offset + lim
         IN  IF n_off >= resp.total THEN Stop
             ELSE [kind |-> "offset", arg |-> n_off, cred |-> TRUE, linkHadToken |-> TRUE]
    ELSE IF resp.page # None /\ resp.pages # None
    THEN IF resp.page + 1 >= resp.pages THEN Stop
         ELSE [kind |-> "page", arg |-> resp.page + 1, cred |-> TRUE, linkHadToken |-> TRUE]
    ELSE Stop

\* fetch_incremental, lines 429-462: token first, then offset+total, else break
IncrNext(resp, lim) ==
    IF resp.token # None
    THEN [kind |-> "token", arg |-> resp.token, cred |-> TRUE, linkHadToken |-> TRUE]
    ELSE IF resp.total # None /\ resp.offset # None
    THEN LET offset == resp.offset + lim
         IN  IF offset >= resp.total THEN Stop
             ELSE [kind |-> "offset", arg |-> offset, cred |-> TRUE, linkHadToken |-> TRUE]
    ELSE Stop

\* rows and isinstance(rows[0], dict) and not rows[0].get("fields")
NeedDetail(rows) == Len(rows) > 0 /\ ~rows[1].fields

\* SelectSeq with a set of ids to drop
DropIds(rows, F) ==
    LET keep(e) == e.id \notin F IN SelectSeq(rows, keep)

\* the collection of a process that has not walked yet
NoSource ==
    [signals |-> {}, pageBase |-> 0, static |-> FALSE, nrec |-> 0, leanFrom |-> 0,
     overlap |-> 0]

WalkerInit ==
    /\ src = NoSource
    /\ wfun = "full"
    /\ wlimit = 1
    /\ wpc = "idle"
    /\ wreq = FirstRequest
    /\ all_rows = <<>>
    /\ visited = <<>>

\* entry of either walker: lines 232-235 / 381-385, all_rows = [] / rows = []
WalkStart ==
    /\ wpc = "idle"
    /\ wpc' = "request"
    /\ wreq' = FirstRequest
    /\ all_rows' = <<>>
    /\ visited' = <<>>
    /\ src' \in Sources
    /\ wfun' \in {"full", "incremental"}
    /\ wlimit' \in 1..MaxLimit
    /\ UNCHANGED othersW

\* one pass of the `while True` of fetch_all_entries_full: lines 257-330
FullStep ==
    /\ wpc = "request"
    /\ wfun = "full"
    /\ Len(visited) < MaxRequests
    /\ \E listOk \in BOOLEAN, detailOk \in BOOLEAN, linkCred \in BOOLEAN :
         LET resp == Response(src, wlimit, wreq)
             rows == IF NeedDetail(resp.rows)
                     THEN [k \in 1..Len(resp.rows) |-> Detail(resp.rows[k])]
                     ELSE resp.rows
             nxt  == FullNext(resp, wlimit, linkCred)
         IN  /\ visited' = Append(visited, resp.index)
             /\ IF ~listOk \/ (NeedDetail(resp.rows) /\ ~detailOk)
                THEN \* _raise_on_404 raises: line 263 / line 281
                     /\ wpc' = "raised"
                     /\ UNCHANGED <<wreq, all_rows>>
                ELSE /\ all_rows' = all_rows \o rows
                     /\ IF nxt = Stop
                        THEN wpc' = "done" /\ UNCHANGED wreq
                        ELSE wpc' = "request" /\ wreq' = nxt
    /\ UNCHANGED <<src, wfun, wlimit>>
    /\ UNCHANGED othersW

\* one pass of the `while True` of fetch_incremental, and, on `break`, the
\* detail pass that follows the loop: lines 396-510
IncrStep ==
    /\ wpc = "request"
    /\ wfun = "incremental"
    /\ Len(visited) < MaxRequests
    /\ \E listOk \in BOOLEAN :
         LET resp == Response(src, wlimit, wreq)
             rows == all_rows \o resp.rows
             nxt  == IncrNext(resp, wlimit)
         IN  /\ visited' = Append(visited, resp.index)
             /\ IF ~listOk
                THEN \* _ensure_ok raises: line 400
                     /\ wpc' = "raised"
                     /\ UNCHANGED <<wreq, all_rows>>
                ELSE IF nxt # Stop
                THEN /\ wpc' = "request"
                     /\ wreq' = nxt
                     /\ all_rows' = rows
                ELSE /\ wpc' = "done"
                     /\ UNCHANGED wreq
                     /\ IF NeedDetail(rows)
                        THEN \* a failed detail fetch skips the entry: lines 490-502
                             \E F \in SUBSET {rows[k].id : k \in 1..Len(rows)} :
                                 all_rows' = [k \in 1..Len(DropIds(rows, F)) |->
                                                 Detail(DropIds(rows, F)[k])]
                        ELSE all_rows' = rows
    /\ UNCHANGED <<src, wfun, wlimit>>
    /\ UNCHANGED othersW

\* the caller takes the result (or the exception) and the locals of the
\* walk are gone; another walk may begin
WalkEnd ==
    /\ wpc \in {"done", "raised"}
    /\ src' = NoSource
    /\ wfun' = "full"
    /\ wlimit' = 1
    /\ wpc' = "idle"
    /\ wreq' = FirstRequest
    /\ all_rows' = <<>>
    /\ visited' = <<>>
    /\ UNCHANGED othersW

WalkerNext == WalkStart \/ FullStep \/ IncrStep \/ WalkEnd

\* <<0, 1, ..., n-1>>
Upto(n) == [k \in 1..n |-> k - 1]

\* the ids of a list of records
Ids(rows) == [k \in 1..Len(rows) |-> rows[k].id]

\* a finite collection paginated by one convention, walked by fetch_all_entries_full
OneConvention ==
    /\ wpc # "idle"
    /\ wfun = "full"
    /\ ~src.static
    /\ src.overlap = 0
    /\ Cardinality(src.signals) = 1

\* the walk so far has requested the pages in order, each one once; while it
\* runs there is a page left to request; when it returns it has requested
\* every page and holds every record
WalkedExactlyOnce ==
    /\ visited = Upto(Len(visited))
    /\ Len(visited) <= NPages(src, wlimit)
    /\ (wpc = "request") => Len(visited) < NPages(src, wlimit)
    /\ (wpc = "done") =>
          /\ Len(visited) = NPages(src, wlimit)
          /\ Ids(all_rows) = [k \in 1..src.nrec |-> k]

\* C6: for a finite remote source paginated by any one of the four conventions
\* (next-link, continuation token, offset+total, page+pages),
\* fetch_all_entries_full requests every page exactly once, returns every
\* record of every page, and terminates.
C6_EveryPageOnce == OneConvention => WalkedExactlyOnce

\* C6, the part the code satisfies: the same for next-link, token and
\* offset+total sources, and for page+pages sources whose page numbers start at 0.
C6_EveryPageOnce_ZeroBased ==
    (OneConvention /\ (src.signals = {"page"} => src.pageBase = 0)) => WalkedExactlyOnce

\* a three-page page+pages source numbered from 0 walked to the end
C6_Witness_ZeroBased ==
    /\ OneConvention
    /\ src.signals = {"page"}
    /\ src.pageBase = 0
    /\ wpc = "done"
    /\ visited = <<0, 1, 2>>

\* C7: when the remote answers every request with the same total and the same
\* offset (no progress), the pagination loops of fetch_all_entries_full and
\* fetch_incremental stop: they never get as far as MaxRequests requests, all
\* answered alike, with one more request still to send.
C7_StaticOffsetStops ==
    (src.static /\ src.signals = {"offset"} /\ wpc = "request") =>
        Len(visited) < MaxRequests


\* C19: the record list produced by one run of fetch_all_entries_full
\* contains no two records with the same id, including when the pages of the
\* remote overlap.
C19_NoDuplicateIds ==
    (wfun = "full" /\ wpc = "done") =>
        \A a, b \in 1..Len(all_rows) : a # b => all_rows[a].id # all_rows[b].id

\* C20 (one pass of the loop of fetch_all_entries_full that answers resp):
\* the next request follows the next-link when there is one, else the
\* continuation token when there is one, else offset+total, else page+pages;
\* and the walk does not stop on a response that carries a next-link or a token.
C20_Step ==
    (wfun = "full" /\ wpc = "request" /\ wpc' \in {"request", "done"}) =>
        LET resp == Response(src, wlimit, wreq)
            hasNext   == resp.next # None
            hasToken  == resp.token # None
            hasOffset == resp.total # None /\ resp.offset # None
            hasPage   == resp.page # None /\ resp.pages # None
        IN  /\ hasNext => (wpc' = "request" /\ wreq'.kind = "next")
            /\ (~hasNext /\ hasToken) => (wpc' = "request" /\ wreq'.kind = "token")
            /\ (~hasNext /\ ~hasToken /\ hasOffset /\ wpc' = "request") =>
                  wreq'.kind = "offset"
            /\ (~hasNext /\ ~hasToken /\ ~hasOffset /\ hasPage /\ wpc' = "request") =>
                  wreq'.kind = "page"
            /\ (~hasNext /\ ~hasToken /\ ~hasOffset /\ ~hasPage) => wpc' = "done"

\* C20: when one response of fetch_all_entries_full carries several
\* pagination signals, the next request is chosen by priority: next-link
\* first, then continuation token, then offset+total, then page+pages; a
\* lower-priority signal is used only when every higher-priority one is absent.
C20_SignalPriority == [][C20_Step]_vars

\* a response that carried all four signals was followed by a request for
\* its next-link
C20_Witness ==
    /\ wfun = "full"
    /\ wpc = "request"
    /\ src.signals = Signals
    /\ ~src.static
    /\ Len(visited) = 1
    /\ wreq.kind = "next"

\* C21: every request issued by the walker carries the configured credential
\* token, including requests that follow a server-supplied next-link whose
\* query string does not contain the token and requests for
\* continuation/offset/page pages.
C21_RequestsCarryToken == (wpc = "request") => wreq.cred

\* the walker is about to follow a next-link that came without the token
C21_Witness ==
    /\ wfun = "full"
    /\ wpc = "request"
    /\ wreq.kind = "next"
    /\ ~wreq.linkHadToken
    /\ wreq.cred

\* C22: every list item that has an id and no field payload is replaced by
\* its per-record detail before the walker yields it, for every item of the
\* page and not only when the first item of the page lacks fields.
C22_EveryLeanItemDetailed ==
    (wpc = "done") => \A k \in 1..Len(all_rows) : all_rows[k].fields

\* the list items of the pages requested so far
RECURSIVE ListItems(_)
ListItems(v) ==
    IF v = <<>> THEN <<>>
    ELSE ListItems(SubSeq(v, 1, Len(v) - 1)) \o PageRows(src, wlimit, v[Len(v)])

\* C23: when the detail fetch of one record fails, the fetch does not abort
\* and that record is still present in the output with its list-view data;
\* the output has one record per input list item.
C23_DetailFailureKeepsRecord ==
    (wpc = "done") => Ids(all_rows) = Ids(ListItems(visited))

(***************************************************************************)
(* Incremental sync engine: memento_import.import_library_incremental,     *)
(* _insert_chunk, load_sync_state, save_sync_state, _ensure_table_schema   *)
(***************************************************************************)

\* records of the remote library, largest page the generator yields, and
\* number of runs that are explored
NRecords == 2
PageLimit == 2
MaxRuns == 2

\* latest modification time: the records can have distinct times with a gap
MaxT == NRecords + 1

RecIds == 1..NRecords

\* record ids are opaque and the fetch order is arbitrary, so the libraries
\* are taken with their times in id order
Remotes == {f \in [RecIds -> 0..MaxT] : \A i, j \in RecIds : i <= j => f[i] <= f[j]}

\* the status flag of a remote record
RecordStatuses == {"active", "trash"}

Schemas == {"csv_pk", "csv_nopk", "fallback"}

\* _ensure_table_schema, lines 287-297: a column is the PRIMARY KEY only when
\* `pk` is non-empty and names it. pk is the id column found in the reference
\* export's header; the fallback schema ["id", "modified"] is created with pk = "".
HasPrimaryKey(sch) == sch = "csv_pk"

\* _entry_to_row for the record rid: the mapped row
Row(rem, rid) == [id |-> rid, modified |-> rem[rid]]

\* INSERT OR REPLACE of one row: a row with the same primary key is deleted
\* first; without a primary key nothing conflicts and the row is added
InsertOrReplace(tbl, row, sch) ==
    IF HasPrimaryKey(sch)
    THEN LET keep == {x \in DOMAIN tbl : x.id # row.id}
         IN  [x \in keep |-> tbl[x]] (+) SetToBag({row})
    ELSE tbl (+) SetToBag({row})

\* cur.executemany(sql, vals): the rows of the page, in order
RECURSIVE InsertAll(_, _, _)
InsertAll(tbl, rows, sch) ==
    IF rows = <<>> THEN tbl
    ELSE InsertAll(InsertOrReplace(tbl, Head(rows), sch), Tail(rows), sch)

\* _insert_chunk, lines 572-608: the page is mapped and written under one
\* savepoint, whose RELEASE commits it
InsertChunk(tbl, rem, c, sch) ==
    InsertAll(tbl, [k \in 1..Len(c) |-> Row(rem, c[k])], sch)

\* the records the list endpoint returns for a run that starts from the
\* checkpoint w: fetch_incremental, lines 384-390, sends the filter only when
\* there is a checkpoint and the probe found the parameter accepted
Fetched(rem, w, filter) ==
    IF w # 0 /\ filter THEN {i \in RecIds : rem[i] > w} ELSE RecIds

\* the pages a generator may yield next: any records not yet yielded, in any order
Chunks(S) ==
    UNION {{c \in [1..n -> S] : \A i, j \in 1..n : i # j => c[i] # c[j]} :
             n \in 1..Min(PageLimit, Cardinality(S))}

\* the except branch re-raises without rolling back: the rows written before
\* the failure stay
RollbackToSavepoint_None(before, partial) == partial

\* lines 605-608: ROLLBACK TO SAVEPOINT memento_page; RELEASE; raise
RollbackToSavepoint(before, partial) == before

\* lines 626-628: last_mod = chunk[-1].get("modified")
LastMod(rem, c) == rem[c[Len(c)]]

\* the checkpoint is saved as soon as the page is fetched, before it is written
StepAfter_CheckpointFirst(p) ==
    CASE p = "fetch" -> "checkpoint"
      [] p = "checkpoint" -> "insert"
      [] p = "insert" -> "commit"
      [] p = "commit" -> "fetch"

\* the order of the loop body, lines 618-630: _insert_chunk, conn.commit(),
\* save_sync_state, next page
StepAfter(p) ==
    CASE p = "fetch" -> "insert"
      [] p = "insert" -> "commit"
      [] p = "commit" -> "checkpoint"
      [] p = "checkpoint" -> "fetch"

SyncQuiet ==
    /\ spc = "idle"
    /\ lmr = 0
    /\ todo = {}
    /\ chunk = <<>>
    /\ page_no = 0
    /\ inserted = 0
    /\ table = EmptyBag
    /\ ckpt = 0
    /\ runs = 0
    /\ gotten = {}
    /\ ckptChunk = {}
    /\ ckpt0 = 0
    /\ resumed = FALSE

AllActive == [i \in RecIds |-> "active"]

\* an empty database and any remote library whose records are all active
SyncInit ==
    /\ remote \in Remotes
    /\ status = AllActive
    /\ schema \in Schemas
    /\ serverFilter \in BOOLEAN
    /\ SyncQuiet

\* an empty database and any remote library, with records flagged as trash
SyncInitFlagged ==
    /\ remote \in Remotes
    /\ status \in [RecIds -> RecordStatuses]
    /\ schema \in Schemas
    /\ serverFilter \in BOOLEAN
    /\ SyncQuiet

\* import_library_incremental up to the loop, lines 525-570: the table is
\* ensured, the checkpoint is loaded, the generator is created
RunStart ==
    /\ spc = "idle"
    /\ runs < MaxRuns
    /\ runs' = runs + 1
    /\ lmr' = ckpt
    /\ todo' = Fetched(remote, ckpt, serverFilter)
    /\ gotten' = {}
    /\ chunk' = <<>>
    /\ page_no' = 0
    /\ inserted' = 0
    /\ spc' = "fetch"
    /\ ckpt0' = IF resumed THEN ckpt0 ELSE ckpt
    /\ UNCHANGED <<remote, status, schema, serverFilter, table, ckpt, ckptChunk, resumed>>
    /\ UNCHANGED othersS

\* the generator yields a non-empty page: lines 611-620
FetchPage ==
    /\ spc = "fetch"
    /\ \E c \in Chunks(todo) :
         /\ chunk' = c
         /\ todo' = todo \ {c[k] : k \in 1..Len(c)}
         /\ gotten' = gotten \cup {c[k] : k \in 1..Len(c)}
    /\ page_no' = page_no + 1
    /\ spc' = StepAfter("fetch")
    /\ UNCHANGED <<remote, status, schema, serverFilter, lmr, inserted, table, ckpt, runs,
                   ckptChunk, ckpt0, resumed>>
    /\ UNCHANGED othersS

\* _insert_chunk(chunk): line 621
InsertPage ==
    /\ spc = "insert"
    /\ table' = InsertChunk(table, remote, chunk, schema)
    /\ spc' = StepAfter("insert")
    /\ UNCHANGED <<remote, status, schema, serverFilter, lmr, todo, chunk, page_no, inserted,
                   ckpt, runs, gotten, ckptChunk, ckpt0, resumed>>
    /\ UNCHANGED othersS

\* conn.commit(); inserted += len(chunk): lines 622-623
CommitPage ==
    /\ spc = "commit"
    /\ inserted' = inserted + Len(chunk)
    /\ spc' = StepAfter("commit")
    /\ UNCHANGED <<remote, status, schema, serverFilter, lmr, todo, chunk, page_no, table,
                   ckpt, runs, gotten, ckptChunk, ckpt0, resumed>>
    /\ UNCHANGED othersS

\* checkpoint after commit, lines 625-630: save_sync_state when the last
\* record of the page has a modification time
Checkpoint ==
    /\ spc = "checkpoint"
    /\ LET last_mod == LastMod(remote, chunk)
       IN  IF last_mod # 0
           THEN /\ ckpt' = last_mod
                /\ ckptChunk' = {chunk[k] : k \in 1..Len(chunk)}
           ELSE UNCHANGED <<ckpt, ckptChunk>>
    /\ spc' = StepAfter("checkpoint")
    /\ UNCHANGED <<remote, status, schema, serverFilter, lmr, todo, chunk, page_no, inserted,
                   table, runs, gotten, ckpt0, resumed>>
    /\ UNCHANGED othersS

\* _insert_chunk(chunk) raises, line 621: the mapping of a row fails (lines
\* 586-601, nothing is written yet) or executemany fails after n rows (line
\* 603); the except branch rolls the page back and re-raises, and the
\* exception leaves import_library_incremental
InsertFail ==
    /\ spc = "insert"
    /\ \E n \in 0..(Len(chunk) - 1) :
         table' = RollbackToSavepoint(table,
                      InsertChunk(table, remote, SubSeq(chunk, 1, n), schema))
    /\ spc' = "failed"
    /\ UNCHANGED <<remote, status, schema, serverFilter, lmr, todo, chunk, page_no, inserted,
                   ckpt, runs, gotten, ckptChunk, ckpt0, resumed>>
    /\ UNCHANGED othersS

\* the generator is exhausted: the loop ends and `inserted` is returned, line 636
FetchDone ==
    /\ spc = "fetch"
    /\ todo = {}
    /\ spc' = "done"
    /\ UNCHANGED <<remote, status, schema, serverFilter, lmr, todo, chunk, page_no, inserted,
                   table, ckpt, runs, gotten, ckptChunk, ckpt0, resumed>>
    /\ UNCHANGED othersS

\* the fetch of the next page raises; the exception leaves the function
FetchFail ==
    /\ spc = "fetch"
    /\ todo # {}
    /\ spc' = "failed"
    /\ UNCHANGED <<remote, status, schema, serverFilter, lmr, todo, chunk, page_no, inserted,
                   table, ckpt, runs, gotten, ckptChunk, ckpt0, resumed>>
    /\ UNCHANGED othersS

\* the run ends (returned, raised, or the process was interrupted at any
\* point of the loop): its locals are gone, the database stays
RunEnd ==
    /\ spc # "idle"
    /\ resumed' = (spc # "done")
    /\ spc' = "idle"
    /\ lmr' = 0
    /\ todo' = {}
    /\ chunk' = <<>>
    /\ page_no' = 0
    /\ inserted' = 0
    /\ gotten' = {}
    /\ UNCHANGED <<remote, status, schema, serverFilter, table, ckpt, runs, ckptChunk, ckpt0>>
    /\ UNCHANGED othersS

\* the generator yields an empty page: `if not chunk: continue`, lines 618-619
FetchEmpty ==
    /\ spc = "fetch"
    /\ UNCHANGED svars
    /\ UNCHANGED othersS

SyncNext ==
    RunStart \/ FetchPage \/ FetchEmpty \/ InsertPage \/ InsertFail \/ CommitPage
        \/ Checkpoint \/ FetchDone \/ FetchFail \/ RunEnd

\* the largest modification time among the records S (0 when there is none)
MaxMod(S) ==
    IF S = {} THEN 0
    ELSE LET ts == {remote[i] : i \in S} IN CHOOSE t \in ts : \A u \in ts : u <= t

\* ids of the records that have a row in the target table
StoredIds == {x.id : x \in BagToSet(table)}

\* C1: across any sequence of runs for one library, and across the pages
\* inside each run, the value stored in memento_sync.last_modified_remote
\* never decreases, whatever order the remote returns records in.
C1_CheckpointMonotonic == [][ckpt' >= ckpt]_vars

\* the records of the library have modification times t1 < t2 < ... < tn
DistinctTimes ==
    \A i, j \in RecIds : remote[i] > 0 /\ (i # j => remote[i] # remote[j])

\* C2: for records with times t1 < ... < tn, after each committed page the stored checkpoint equals the maximum
\* modification time over all records fetched so far in the run, and at the
\* end of a successful run the maximum over all records fetched in it.
C2_CheckpointIsMax ==
    (DistinctTimes /\ spc \in {"fetch", "done"} /\ gotten # {}) => ckpt = MaxMod(gotten)

\* C3: write-before-checkpoint: in every reachable state, also after an
\* interruption at any step, every record of the page the stored checkpoint
\* was taken from has its row committed in the target table.
C3_WriteBeforeCheckpoint == ckptChunk \subseteq StoredIds

\* the second page of a run is fetched but not yet written, while the stored
\* checkpoint comes from the first page, which is in the table
C3_Witness ==
    /\ spc = "insert"
    /\ page_no = 2
    /\ ckpt # 0
    /\ ckptChunk # {}
    /\ ckptChunk \subseteq StoredIds
    /\ \E k \in 1..Len(chunk) : chunk[k] \notin StoredIds

\* C4: when a run was interrupted and the next run completes, every remote
\* record newer than the checkpoint the interrupted run started from is in
\* the target table (stated for libraries without equal modification times,
\* so that no record sits exactly on a checkpoint).
C4_ResumeLosesNothing ==
    (DistinctTimes /\ spc = "done" /\ resumed) =>
        \A i \in RecIds : remote[i] > ckpt0 => i \in StoredIds


\* the ids of the records of a page
PageIds(c) == {c[k] : k \in 1..Len(c)}

\* C12 (state part): when a run has failed on page N, every record of the
\* pages before it has its row in the table, and the checkpoint is one saved
\* from a page that is in the table.
C12_Kept ==
    (spc = "failed") =>
        /\ (inserted = Cardinality(gotten)) => gotten \subseteq StoredIds
        /\ (gotten \ PageIds(chunk)) \subseteq StoredIds
        /\ ckptChunk \subseteq StoredIds

\* C12 (step part): the step on which page N fails (its fetch, or its write
\* inside _insert_chunk) leaves the table and the checkpoint as they were
\* after page N-1, and once the exception is raised the run does nothing
\* more: it only leaves to its caller.
C12_Step ==
    /\ (spc # "failed" /\ spc' = "failed") =>
          (spc \in {"fetch", "insert"} /\ table' = table /\ ckpt' = ckpt)
    /\ (spc = "failed") =>
          (spc' \in {"failed", "idle"} /\ table' = table /\ ckpt' = ckpt)

\* C12: if processing of page N of an incremental run fails, then afterwards
\* the target table holds all rows of pages 1..N-1 and no row of page N, the
\* checkpoint equals the value saved after page N-1, and the exception is
\* re-raised to the caller.
C12_PageFailureRollsBack == [](C12_Kept) /\ [][C12_Step]_vars

\* the write of the second page of a run failed after the first page was
\* committed and its checkpoint saved
C12_Witness ==
    /\ spc = "failed"
    /\ page_no = 2
    /\ inserted < Cardinality(gotten)
    /\ ckpt # 0
    /\ StoredIds = gotten \ PageIds(chunk)
    /\ StoredIds # {}

\* C15: a fetched record flagged with a non-active status (e.g. status
\* "trash") is never written to the target table during the run, while it is
\* still counted among the fetched records.
C15_TrashNeverWritten ==
    \A i \in gotten : status[i] = "trash" => i \notin StoredIds

\* C18: in an incremental run with a stored watermark W, when the prober
\* finds no server-side modified-after support, records whose modification
\* time is not newer than W are filtered out client-side: none of them is
\* returned by the incremental fetch (and so none is written by the run).
C18_ClientSideFilter ==
    (spc # "idle" /\ lmr # 0 /\ ~serverFilter) =>
        \A i \in RecIds : (remote[i] # 0 /\ remote[i] <= lmr) => i \notin gotten

\* the stored checkpoint is the value the database began with, or the
\* modification time of a record that has its row in the target table
C39_CheckpointCommitted ==
    ckpt = 0 \/ \E x \in BagToSet(table) : x.modified = ckpt

\* a page whose last record carries no modification time is going through
\* the loop body
C39_UntimedPage == chunk # <<>> /\ LastMod(remote, chunk) = 0

\* the loop body leaves the checkpoint and the inserted count alone on an
\* empty page and on a page whose last record has no modification time, and
\* the run goes on to the next page
C39_Step ==
    /\ (spc = "fetch" /\ spc' = "fetch") => (ckpt' = ckpt /\ inserted' = inserted)
    /\ (C39_UntimedPage /\ spc \in {"commit", "checkpoint"}) =>
           (spc' \in {"idle", "failed"} \/ (ckpt' = ckpt /\ inserted' = inserted))
    /\ (C39_UntimedPage /\ spc = "checkpoint") => spc' \in {"fetch", "idle"}

\* C39: in every reachable state the checkpoint stored for a library is the
\* value it had before the runs began or the modification time of a record
\* of the library already committed in the target table; an empty page, or
\* a page whose last record has no modification time, leaves the checkpoint
\* and the inserted count as they were and does not stop the run.
C39_CheckpointFromCommittedRecord == [](C39_CheckpointCommitted) /\ [][C39_Step]_vars


(***************************************************************************)
(* Upsert writer: _insert_chunk written twice with the same page, on the   *)
(* table and schema of the sync engine                                     *)
(***************************************************************************)

\* most rows the table holds before a page is written
MaxRows == 3

UpsertInit ==
    /\ upc = "idle"
    /\ once = EmptyBag

\* _insert_chunk(chunk) for some page of the library
WriteOnce ==
    /\ upc \in {"idle", "twice"}
    /\ spc = "idle"
    /\ BagCardinality(table) <= MaxRows
    /\ \E c \in Chunks(RecIds) :
         /\ chunk' = c
         /\ table' = InsertChunk(table, remote, c, schema)
    /\ once' = table'
    /\ upc' = "once"
    /\ UNCHANGED othersU

\* _insert_chunk(chunk) again, with the same page
WriteAgain ==
    /\ upc = "once"
    /\ table' = InsertChunk(table, remote, chunk, schema)
    /\ upc' = "twice"
    /\ UNCHANGED <<chunk, once>>
    /\ UNCHANGED othersU

UpsertNext == WriteOnce \/ WriteAgain

\* C5: writing the same page twice with _insert_chunk leaves the target table
\* with the same rows (number and column values) as writing it once, for
\* every schema the engine creates: a reference header with an id column, a
\* header without one, and the fallback schema id+modified.
C5_UpsertIdempotent == (upc = "twice") => table = once

\* C5, the part the code satisfies: the same when the table was created from
\* a reference header that has an id column, which is then the PRIMARY KEY.
C5_UpsertIdempotent_PrimaryKey ==
    (upc = "twice" /\ HasPrimaryKey(schema)) => table = once

(***************************************************************************)
(* Batch orchestrator: memento_import.run_batch, with the page loop of     *)
(* import_library_incremental reduced to its counts                        *)
(***************************************************************************)

\* most sections of a batch, most pages of a library, most records of a page
MaxSections == 3
MaxPages == 2
MaxPageSize == 2

Sections == 1..MaxSections

\* what run_batch reads of a section: whether library_id or library is set,
\* and the sync mode
Cfgs == [lib : BOOLEAN, sync : {"incremental", "full"}]

NoCfg == [lib |-> TRUE, sync |-> "incremental"]

\* the test of library_id is missing: the section goes on with library_id = None
MissingId_Never(c) == FALSE

\* lines 648-650: library_id = cfg.get("library_id") or cfg.get("library");
\* if not library_id: raise ValueError
MissingId(c) == ~c.lib

\* the result of the import replaces the total
Accumulate_Last(total, n) == n

\* line 663: total_inserted += import_library_incremental(...)
Accumulate(total, n) == total + n

RECURSIVE SumUpTo(_, _)
SumUpTo(f, n) == IF n = 0 THEN 0 ELSE f[n] + SumUpTo(f, n - 1)

BatchInit ==
    /\ batch_pc = "idle"
    /\ nsections = 0
    /\ section = 0
    /\ cfg = NoCfg
    /\ total_inserted = 0
    /\ lib_inserted = 0
    /\ lib_pages = 0
    /\ requested = {}
    /\ written = [i \in Sections |-> 0]
    /\ noId = {}
    /\ fullMode = {}
    /\ batch_result = -1

\* run_batch is called with a batch of some sections: lines 642-645
BatchStart ==
    /\ batch_pc = "idle"
    /\ nsections' \in 0..MaxSections
    /\ batch_pc' = "section"
    /\ UNCHANGED <<section, cfg, total_inserted, lib_inserted, lib_pages, requested,
                   written, noId, fullMode, batch_result>>
    /\ UNCHANGED othersK

\* the for loop takes the next section: lines 646-674, up to the call of
\* import_library_incremental or to the log_error of the else branch
BatchSection ==
    /\ batch_pc = "section"
    /\ section < nsections
    /\ section' = section + 1
    /\ \E c \in Cfgs :
         /\ cfg' = c
         /\ noId' = IF c.lib THEN noId ELSE noId \cup {section'}
         /\ IF MissingId(c)
            THEN \* raise ValueError("library_id mancante"): lines 677-681
                 /\ batch_pc' = "raised"
                 /\ UNCHANGED fullMode
            ELSE IF c.sync = "incremental"
            THEN /\ batch_pc' = "import"
                 /\ UNCHANGED fullMode
            ELSE \* log_error("Modalità sync non supportata"), next section
                 /\ batch_pc' = "section"
                 /\ fullMode' = fullMode \cup {section'}
    /\ lib_inserted' = 0
    /\ lib_pages' = 0
    /\ UNCHANGED <<nsections, total_inserted, requested, written, batch_result>>
    /\ UNCHANGED othersK

\* import_library_incremental, lines 611-623: the generator fetches and
\* yields a page of n records; an empty page is skipped, another is written,
\* committed and counted
BatchPage ==
    /\ batch_pc = "import"
    /\ lib_pages < MaxPages
    /\ lib_pages' = lib_pages + 1
    /\ requested' = requested \cup {section}
    /\ \E n \in 0..MaxPageSize :
         /\ lib_inserted' = lib_inserted + n
         /\ written' = [written EXCEPT ![section] = @ + n]
    /\ UNCHANGED <<batch_pc, nsections, section, cfg, total_inserted, noId, fullMode,
                   batch_result>>
    /\ UNCHANGED othersK

\* the fetch of a page or _insert_chunk raises: the exception leaves
\* import_library_incremental and run_batch logs and re-raises it, lines 677-679
BatchPageFail ==
    /\ batch_pc = "import"
    /\ requested' = requested \cup {section}
    /\ batch_pc' = "raised"
    /\ UNCHANGED <<nsections, section, cfg, total_inserted, lib_inserted, lib_pages,
                   written, noId, fullMode, batch_result>>
    /\ UNCHANGED othersK

\* the generator is exhausted: import_library_incremental returns inserted
\* (line 636) and run_batch adds it to the total (line 663)
BatchImportReturn ==
    /\ batch_pc = "import"
    /\ requested' = requested \cup {section}
    /\ total_inserted' = Accumulate(total_inserted, lib_inserted)
    /\ batch_pc' = "section"
    /\ UNCHANGED <<nsections, section, cfg, lib_inserted, lib_pages, written, noId,
                   fullMode, batch_result>>
    /\ UNCHANGED othersK

\* the for loop is over: return total_inserted, line 676
BatchReturn ==
    /\ batch_pc = "section"
    /\ section = nsections
    /\ batch_result' = total_inserted
    /\ batch_pc' = "returned"
    /\ UNCHANGED <<nsections, section, cfg, total_inserted, lib_inserted, lib_pages,
                   requested, written, noId, fullMode>>
    /\ UNCHANGED othersK

\* the caller has the result or the exception; the next batch starts afresh
BatchEnd ==
    /\ batch_pc \in {"returned", "raised"}
    /\ batch_pc' = "idle"
    /\ nsections' = 0
    /\ section' = 0
    /\ cfg' = NoCfg
    /\ total_inserted' = 0
    /\ lib_inserted' = 0
    /\ lib_pages' = 0
    /\ requested' = {}
    /\ written' = [i \in Sections |-> 0]
    /\ noId' = {}
    /\ fullMode' = {}
    /\ batch_result' = -1
    /\ UNCHANGED othersK

BatchNext ==
    BatchStart \/ BatchSection \/ BatchPage \/ BatchPageFail \/ BatchImportReturn
        \/ BatchReturn \/ BatchEnd

BatchOver == batch_pc \in {"returned", "raised"}

\* C13: in run_batch, a fatal exception raised while syncing one collection
\* does not prevent the collections configured after it in the same batch
\* from being attempted: when the batch is over, the loop has taken every
\* configured section.
C13_LaterSectionsAttempted == BatchOver => section = nsections

\* C14: for a collection whose configuration has no library identifier,
\* run_batch fails that collection with an error before issuing any network
\* request and before any write to the local store for that collection.
C14_MissingIdFailsFirst ==
    \A i \in noId :
        /\ i \notin requested
        /\ written[i] = 0
        /\ batch_pc = "raised"
        /\ section = i

\* the second section of a batch has no library identifier; the first one
\* was fetched and written before it
C14_Witness ==
    /\ batch_pc = "raised"
    /\ section = 2
    /\ noId = {2}
    /\ requested = {1}
    /\ written[1] > 0

\* C16: for a collection configured with sync mode full (any mode other than
\* incremental), run_batch fetches and writes the complete record set of the
\* collection: once the loop has taken such a section, a fetch of its
\* library has been issued.
C16_FullModeFetches == \A i \in fullMode : i \in requested

\* C17: when run_batch returns normally, its result equals the sum, over all
\* configured collections and all their non-empty pages, of the number of
\* records written; otherwise it raises (and has no result).
C17_ResultIsSumWritten ==
    /\ (batch_pc = "returned") =>
          /\ section = nsections
          /\ batch_result = SumUpTo(written, nsections)
    /\ (batch_pc # "returned") => batch_result = -1

\* a batch of two collections, both written to, has returned
C17_Witness ==
    /\ batch_pc = "returned"
    /\ nsections = 2
    /\ written[1] = 2 * MaxPageSize - 1
    /\ written[2] = MaxPageSize
    /\ batch_result = written[1] + written[2]

(***************************************************************************)
(* Enrichment decider: memento_import._autodetect_enrich_details           *)
(***************************************************************************)

\* most header signatures, probed records and header columns explored
MaxSig == 2
MaxProbed == 2
MaxHeaders == 2

\* if ok + bad >= 12: break
CompareCap == 12

NoEntry == [signature |-> 0, enrich_details |-> FALSE]

\* the cache entry of the section: none, or a signature and a boolean decision
CacheEntries == {NoEntry} \cup [signature : 1..MaxSig, enrich_details : BOOLEAN]

\* a probed record against the reference sample: its id is not in
\* sample_by_id, or it is and _rows_match says yes, or it is and says no
Compared == {"absent", "match", "mismatch"}

\* the outcomes of the probe: the generator raised, or the records of the
\* first two pages (none: probe_empty), with
\*   firstFields: probed[0]["fields"] is a non-empty dict ("dict") or is
\*                missing, empty or a list ("other")
\*   pk:          the header has an id column and the sample is not empty
\*   nheaders, covered: len(headers) and the headers that are keys of fields
ProbeFailed == [failed |-> TRUE, firstFields |-> "other", pk |-> FALSE,
                records |-> <<>>, nheaders |-> 1, covered |-> 0]

Probes ==
    {ProbeFailed} \cup
    {q \in [failed : {FALSE}, firstFields : {"dict", "other"}, pk : BOOLEAN,
            records : UNION {[1..n -> Compared] : n \in 0..MaxProbed},
            nheaders : 1..MaxHeaders, covered : 0..MaxHeaders] :
        /\ q.covered <= q.nheaders
        /\ (q.firstFields = "other") => q.covered = 0
        /\ ~q.pk => \A k \in 1..Len(q.records) : q.records[k] = "absent"}

NoProbe == ProbeFailed

Undecided == [decided |-> FALSE, enrich_details |-> FALSE, reason |-> "none"]

\* the cache is used whatever signature it was stored with
CacheHit_AnySignature(c, sig) == c # NoEntry

\* line 428: c.get("signature") == signature and the decision is a bool
CacheHit(c, sig) == c # NoEntry /\ c.signature = sig

\* lines 459-474: the records compared before ok + bad reaches the cap
RECURSIVE CountCompared(_, _, _)
CountCompared(recs, what, done) ==
    IF recs = <<>> \/ done >= CompareCap THEN 0
    ELSE LET hit == Head(recs) # "absent"
         IN  (IF Head(recs) = what THEN 1 ELSE 0)
               + CountCompared(Tail(recs), what, done + (IF hit THEN 1 ELSE 0))

\* lines 480-482: ratio = covered / max(1, len(headers)); ratio < 0.9
LowCoverage(q) == 10 * q.covered < 9 * q.nheaders

\* lines 446-491: the decision from a non-empty probe
Decide(q) ==
    IF q.firstFields # "dict"
    THEN [decided |-> TRUE, enrich_details |-> TRUE, reason |-> "list_missing_fields"]
    ELSE IF q.pk
    THEN LET ok  == CountCompared(q.records, "match", 0)
             bad == CountCompared(q.records, "mismatch", 0)
         IN  IF bad > 0
             THEN [decided |-> TRUE, enrich_details |-> TRUE,
                   reason |-> "list_mismatch_sample"]
             ELSE IF ok = 0 /\ LowCoverage(q)
             THEN [decided |-> TRUE, enrich_details |-> TRUE,
                   reason |-> "low_field_coverage"]
             ELSE [decided |-> TRUE, enrich_details |-> FALSE, reason |-> "list_match"]
    ELSE IF LowCoverage(q)
    THEN [decided |-> TRUE, enrich_details |-> TRUE, reason |-> "low_field_coverage"]
    ELSE [decided |-> TRUE, enrich_details |-> FALSE, reason |-> "list_match"]

AutodetectInit ==
    /\ apc = "idle"
    /\ signature = 0
    /\ cache = NoEntry
    /\ probe = NoProbe
    /\ probed = FALSE
    /\ det = Undecided

\* the reference export is replaced, removed or put in place between two runs
HeaderChange ==
    /\ apc = "idle"
    /\ signature' \in (0..MaxSig) \ {signature}
    /\ UNCHANGED <<apc, cache, probe, probed, det>>
    /\ UNCHANGED othersA

\* one call of _autodetect_enrich_details: lines 410-506
Autodetect ==
    /\ apc = "idle"
    /\ apc' = "done"
    /\ IF signature = 0
       THEN \* csv_zip_missing / csv_empty_or_unmatched: lines 411-412, 423-424
            /\ det' = Undecided
            /\ UNCHANGED <<cache, probe, probed>>
       ELSE IF CacheHit(cache, signature)
       THEN \* cache hit: lines 427-429
            /\ det' = [decided |-> TRUE, enrich_details |-> cache.enrich_details,
                       reason |-> "cache"]
            /\ UNCHANGED <<cache, probe, probed>>
       ELSE \* the probe, the decision and its persistence: lines 431-506
            /\ probed' = TRUE
            /\ \E q \in Probes :
                 /\ probe' = q
                 /\ IF q.failed \/ q.records = <<>>
                    THEN \* probe_failed / probe_empty: lines 439-444
                         /\ det' = Undecided
                         /\ UNCHANGED cache
                    ELSE /\ det' = Decide(q)
                         /\ cache' = [signature |-> signature,
                                      enrich_details |-> det'.enrich_details]
    /\ UNCHANGED signature
    /\ UNCHANGED othersA

\* import_library_incremental has taken the result (lines 538-540); the
\* locals of the call are gone, the cache file stays
AutodetectEnd ==
    /\ apc = "done"
    /\ apc' = "idle"
    /\ probe' = NoProbe
    /\ probed' = FALSE
    /\ det' = Undecided
    /\ UNCHANGED <<signature, cache>>
    /\ UNCHANGED othersA

AutodetectNext == HeaderChange \/ Autodetect \/ AutodetectEnd

\* C24: when a probe has records overlapping the reference sample and every
\* one of them matches it on all header columns, the call decides that no
\* enrichment is needed.
C24_AllMatchSkipsDetails ==
    (/\ apc = "done" /\ probed /\ ~probe.failed
     /\ \E k \in 1..Len(probe.records) : probe.records[k] = "match"
     /\ \A k \in 1..Len(probe.records) : probe.records[k] # "mismatch")
        => det.decided /\ ~det.enrich_details

\* C25: a decision reached from a probe is "enrichment required" whenever a
\* compared record mismatches the reference sample or the list view covers
\* less than 90% of the reference columns.
C25_MismatchOrLowCoverageEnriches ==
    (apc = "done" /\ probed /\ det.decided)
        => ((CountCompared(probe.records, "mismatch", 0) > 0 \/ LowCoverage(probe))
                => det.enrich_details)

\* C26: a call made while the cache holds a decision for the current header
\* signature returns that decision, issues no probe and leaves the cache as
\* it is; a call made with any other signature issues the probe, and the
\* decision it reaches replaces the cache entry under the current signature.
C26_Step ==
    (apc = "idle" /\ apc' = "done" /\ signature # 0) =>
        IF cache # NoEntry /\ cache.signature = signature
        THEN /\ det' = [decided |-> TRUE, enrich_details |-> cache.enrich_details,
                        reason |-> "cache"]
             /\ ~probed'
             /\ cache' = cache
        ELSE /\ probed'
             /\ det'.reason # "cache"
             /\ det'.decided =>
                    cache' = [signature |-> signature,
                              enrich_details |-> det'.enrich_details]
             /\ ~det'.decided => cache' = cache

MaxCols == 2

\* column labels a reference export may carry; SQLite compares column names
\* without regard to case, so "Name" and "name" are one column to it
Labels == {"id", "Name", "name", "Note"}
Fold(l) == IF l = "Name" THEN "name" ELSE l

\* field names the records of a library may carry
FieldNames == {"Name", "Note", "Extra"}

\* headers of an export: up to MaxCols distinct labels, in file order
Headers ==
    {h \in UNION {[1..n -> Labels] : n \in 1..MaxCols} :
        \A i, j \in 1..Len(h) : i # j => h[i] # h[j]}

\* line 555: the minimal schema used when no export is found
FallbackHeaders == <<"id", "modified">>

\* lines 257-262: pk is the first header that normalizes to an id name
RECURSIVE InferPk(_)
InferPk(h) ==
    IF h = <<>> THEN ""
    ELSE IF Head(h) = "id" THEN Head(h) ELSE InferPk(Tail(h))

Col(c, isPk) == [name |-> c, type |-> "TEXT", pk |-> isPk]
Names(t) == {x.name : x \in t}

\* lines 288-296: CREATE TABLE with every column of cols; SQLite refuses a
\* column list that names one column twice
RECURSIVE CreateTable(_, _, _)
CreateTable(cols, pk, t) ==
    IF cols = <<>> THEN [ok |-> TRUE, t |-> t]
    ELSE IF Fold(Head(cols)) \in {Fold(n) : n \in Names(t)}
    THEN [ok |-> FALSE, t |-> {}]
    ELSE CreateTable(Tail(cols), pk,
                     t \cup {Col(Head(cols), pk # "" /\ Head(cols) = pk)})

\* the table is rebuilt from the header at hand
AddMissing_Recreate(cols, t) ==
    CreateTable(cols, "", {})

\* lines 299-305: ALTER TABLE ADD COLUMN for each column of cols that
\* PRAGMA table_info does not list, in order; SQLite refuses a name that
\* differs from an existing one only by case, and the loop ends there
RECURSIVE AddMissing(_, _)
AddMissing(cols, t) ==
    IF cols = <<>> THEN [ok |-> TRUE, t |-> t]
    ELSE IF Head(cols) \in Names(t) THEN AddMissing(Tail(cols), t)
    ELSE IF Fold(Head(cols)) \in {Fold(n) : n \in Names(t)}
    THEN [ok |-> FALSE, t |-> t]
    ELSE AddMissing(Tail(cols), t \cup {Col(Head(cols), FALSE)})

\* _ensure_table_schema(conn, table, headers, pk)
EnsureTableSchema(ex, t, headers, pk) ==
    LET cols == headers \o <<"raw_json">>
    IN  IF ~ex
        THEN LET c == CreateTable(cols, pk, {})
             IN  [ok |-> c.ok, exists |-> c.ok, t |-> c.t]
        ELSE LET a == AddMissing(cols, t)
             IN  [ok |-> a.ok, exists |-> TRUE, t |-> a.t]

SchemaInit ==
    /\ exists = FALSE
    /\ tcols = {}
    /\ seen = {}
    /\ imp = "none"

\* one import run whose schema is the header hs, importing records that
\* carry the field names fs: lines 544-557, then the page loop of 605-634
ImportWith(hs, pk, fs) ==
    LET e == EnsureTableSchema(exists, tcols, hs, pk)
    IN  [exists |-> e.exists, tcols |-> e.t,
         seen |-> IF e.ok THEN fs ELSE {},
         imp |-> IF e.ok THEN "ok" ELSE "schema_error"]

\* a run that finds the table's export in memento_all_csv.zip
ImportCsv ==
    /\ \E hs \in Headers, fs \in SUBSET FieldNames :
         LET n == ImportWith(hs, InferPk(hs), fs)
         IN  /\ exists' = n.exists
             /\ tcols' = n.tcols
             /\ seen' = n.seen
             /\ imp' = n.imp
    /\ UNCHANGED othersT

\* a run without an export: headers = ["id", "modified"], pk = ""
ImportFallback ==
    /\ \E fs \in SUBSET FieldNames :
         LET n == ImportWith(FallbackHeaders, "", fs)
         IN  /\ exists' = n.exists
             /\ tcols' = n.tcols
             /\ seen' = n.seen
             /\ imp' = n.imp
    /\ UNCHANGED othersT

SchemaNext == ImportCsv \/ ImportFallback

\* C27: after an import run, every field name carried by the imported
\* records is a column of the target table.
C27_UnseenFieldBecomesColumn ==
    (imp = "ok") => \A f \in seen : f \in Names(tcols)

\* C28: a step never removes a column of an existing table nor changes its
\* name, its declared type or its PRIMARY KEY flag, and adds no key column.
C28_Step ==
    exists =>
        /\ exists'
        /\ tcols \subseteq tcols'
        /\ \A x \in tcols' \ tcols : ~x.pk

C28_ColumnsOnlyGrow == [][C28_Step]_vars

\* a table created with a key from one export has been reconciled with the
\* header of another: it holds columns of both
C28_Witness ==
    /\ exists /\ imp = "ok"
    /\ Col("id", TRUE) \in tcols
    /\ {"Name", "Note", "raw_json"} \subseteq Names(tcols)

(***************************************************************************)
(* Row mapping: memento_import._norm_key, _collect_fields, _entry_to_row   *)
(***************************************************************************)

\* most fields in the payload of a record
MaxFields == 2

\* labels and texts are sequences of characters
L_Name == <<"N", "a", "m", "e">>
L_name == <<"n", "a", "m", "e">>
L_NAME == <<"N", "A", "M", "E">>
L_na_me == <<"n", "a", "_", "m", "e">>
L_Id == <<"I", "d">>
L_ID == <<"I", "D">>
L_id == <<"i", "d">>
L_ext_id == <<"e", "x", "t", "_", "i", "d">>
L_status == <<"s", "t", "a", "t", "u", "s">>
L_fields == <<"f", "i", "e", "l", "d", "s">>

\* str.lower() on the characters in use
Lower(c) ==
    CASE c = "N" -> "n" [] c = "A" -> "a" [] c = "M" -> "m" [] c = "E" -> "e"
      [] c = "I" -> "i" [] c = "D" -> "d" [] OTHER -> c

\* the class [a-z0-9] on the characters in use
IsAlnum(c) == c \in {"a", "d", "e", "f", "i", "l", "m", "n", "s", "t", "u", "x", "7"}

\* _norm_key: re.sub(r"[^a-z0-9]+", "", k.strip().lower())
NormKey(k) == SelectSeq([i \in 1..Len(k) |-> Lower(k[i])], IsAlnum)

\* JSON values: a string, a number, null; Absent marks a key the dict lacks
Str(cs) == [t |-> "str", s |-> cs, n |-> 0]
Num(k) == [t |-> "num", s |-> <<>>, n |-> k]
JNull == [t |-> "null", s |-> <<>>, n |-> 0]
Absent == [t |-> "absent", s |-> <<>>, n |-> 0]

Values == {Str(<<"A">>), Str(<<"B">>), Str(<<"\\", "\"">>), Num(7), JNull}

PayloadLabels == {L_Name, L_name, L_Id}
HeaderLabels == {L_Name, L_name, L_NAME, L_na_me, L_Id, L_ID, L_id, L_ext_id, L_status}

\* the "fields" dict of a record: distinct labels, in insertion order
Payloads ==
    {f \in UNION {[1..n -> [k : PayloadLabels, v : Values]] : n \in 0..MaxFields} :
        \A i, j \in 1..Len(f) : i # j => f[i].k # f[j].k}

\* a record: top-level id and status (each may be missing) and its fields
Entries == [id : {Absent, Num(7)}, status : {Absent, Str(<<"B">>)}, fields : Payloads]

Digit(k) ==
    CASE k = 0 -> "0" [] k = 1 -> "1" [] k = 2 -> "2" [] k = 3 -> "3" [] k = 4 -> "4"
      [] k = 5 -> "5" [] k = 6 -> "6" [] k = 7 -> "7" [] k = 8 -> "8" [] OTHER -> "9"

\* str(v) for a string or a one-digit number
PyStr(v) == IF v.t = "str" THEN v.s ELSE <<Digit(v.n)>>

HasKey(f, k) == \E i \in 1..Len(f) : f[i].k = k
Get(f, k) == f[CHOOSE i \in 1..Len(f) : f[i].k = k].v

\* _collect_fields: the payload's pairs, then the top-level id unless a
\* field already has that label (put keeps the first)
CollectFields(e) ==
    e.fields \o (IF e.id # Absent /\ ~HasKey(e.fields, L_id)
                 THEN <<[k |-> L_id, v |-> e.id]>> ELSE <<>>)

\* fields_norm = {_norm_key(k): v for k, v in fields_raw.items()}: of the
\* labels with one normalized key the last one stays
HasNorm(f, hn) == \E i \in 1..Len(f) : NormKey(f[i].k) = hn
NormGet(f, hn) ==
    f[CHOOSE i \in 1..Len(f) :
        /\ NormKey(f[i].k) = hn
        /\ \A j \in 1..Len(f) : NormKey(f[j].k) = hn => j <= i].v

\* h in entry / entry.get(h)
TopHas(e, h) == (h = L_id /\ e.id # Absent) \/ (h = L_status /\ e.status # Absent)
TopGet(e, h) == IF h = L_id THEN e.id ELSE e.status

\* lines 368-381: the value looked up for header h (JNull is None)
LookupValue(e, h) ==
    LET fields_raw == CollectFields(e)
        hn == NormKey(h)
    IN  IF HasKey(fields_raw, h) THEN Get(fields_raw, h)
        ELSE IF HasNorm(fields_raw, hn) THEN NormGet(fields_raw, hn)
        ELSE IF TopHas(e, h) THEN TopGet(e, h)
        ELSE IF hn = NormKey(L_ext_id) /\ e.id # Absent THEN e.id
        ELSE JNull

\* json.dumps / json.loads: a text of tokens; inside a string token the
\* quote and the backslash are written with a backslash before them
RECURSIVE Escape(_)
Escape(cs) ==
    IF cs = <<>> THEN <<>>
    ELSE (IF Head(cs) \in {"\"", "\\"} THEN <<"\\", Head(cs)>> ELSE <<Head(cs)>>)
            \o Escape(Tail(cs))

RECURSIVE Unescape(_)
Unescape(cs) ==
    IF cs = <<>> THEN <<>>
    ELSE IF Head(cs) = "\\" /\ Len(cs) >= 2
    THEN <<cs[2]>> \o Unescape(Tail(Tail(cs)))
    ELSE <<Head(cs)>> \o Unescape(Tail(cs))

Punct(p) == [tok |-> p, text |-> <<>>]
EncKey(k) == [tok |-> "string", text |-> Escape(k)]

\* every value is written as the text str() gives for it
EncScalar_AsText(v) ==
    [tok |-> "string", text |-> Escape(IF v = JNull THEN <<>> ELSE PyStr(v))]

\* the token of a string, a number or null
EncScalar(v) ==
    CASE v.t = "str" -> [tok |-> "string", text |-> Escape(v.s)]
      [] v.t = "num" -> [tok |-> "number", text |-> <<Digit(v.n)>>]
      [] OTHER -> [tok |-> "null", text |-> <<>>]

DecScalar(tk) ==
    CASE tk.tok = "string" -> Str(Unescape(tk.text))
      [] tk.tok = "number" -> Num(CHOOSE k \in 0..9 : <<Digit(k)>> = tk.text)
      [] OTHER -> JNull

RECURSIVE EncMembers(_)
EncMembers(f) ==
    IF f = <<>> THEN <<>>
    ELSE <<EncKey(Head(f).k), Punct(":"), EncScalar(Head(f).v)>>
            \o (IF Len(f) > 1 THEN <<Punct(",")>> ELSE <<>>)
            \o EncMembers(Tail(f))

\* json.dumps(entry, ensure_ascii=False)
Dumps(e) ==
    <<Punct("{")>>
        \o (IF e.id = Absent THEN <<>>
            ELSE <<EncKey(L_id), Punct(":"), EncScalar(e.id), Punct(",")>>)
        \o (IF e.status = Absent THEN <<>>
            ELSE <<EncKey(L_status), Punct(":"), EncScalar(e.status), Punct(",")>>)
        \o <<EncKey(L_fields), Punct(":"), Punct("{")>>
        \o EncMembers(e.fields)
        \o <<Punct("}"), Punct("}")>>

\* the members of the object whose first token after "{" is toks[i], and the
\* index after its "}"; a member that is itself an object keeps its own
\* members in sub
RECURSIVE ParseMembers(_, _)
ParseMembers(toks, i) ==
    IF toks[i] = Punct("}") THEN [members |-> <<>>, next |-> i + 1]
    ELSE LET key == Unescape(toks[i].text)
             isObj == toks[i + 2] = Punct("{")
             inner == ParseMembers(toks, i + 3)
             m == IF isObj
                  THEN [k |-> key, v |-> Absent, sub |-> inner.members]
                  ELSE [k |-> key, v |-> DecScalar(toks[i + 2]), sub |-> <<>>]
             j == IF isObj THEN inner.next ELSE i + 3
             rest == IF toks[j] = Punct(",")
                     THEN ParseMembers(toks, j + 1)
                     ELSE [members |-> <<>>, next |-> j + 1]
         IN  [members |-> <<m>> \o rest.members, next |-> rest.next]

\* json.loads(row["raw_json"]), as a record of the shape of Entries
Loads(toks) ==
    LET top == ParseMembers(toks, 2).members
        at(k) == top[CHOOSE i \in 1..Len(top) : top[i].k = k]
        has(k) == \E i \in 1..Len(top) : top[i].k = k
    IN  [id |-> IF has(L_id) THEN at(L_id).v ELSE Absent,
         status |-> IF has(L_status) THEN at(L_status).v ELSE Absent,
         fields |-> IF has(L_fields)
                    THEN [i \in 1..Len(at(L_fields).sub) |->
                            [k |-> at(L_fields).sub[i].k, v |-> at(L_fields).sub[i].v]]
                    ELSE <<>>]

\* _entry_to_row(entry, [h]): out[h] = "" if v is None else str(v), and raw_json
EntryToRow(e, h) ==
    LET v == LookupValue(e, h)
    IN  [value |-> IF v = JNull THEN <<>> ELSE PyStr(v), raw_json |-> Dumps(e)]

NoRow == [value |-> <<>>, raw_json |-> <<>>]
EmptyEntry == [id |-> Absent, status |-> Absent, fields |-> <<>>]

\* one record and one header column, no call made yet
RowIdle ==
    /\ rpc = "ready"
    /\ entry = EmptyEntry
    /\ header = L_id
    /\ out = NoRow

\* any record and any header column
RowInit ==
    /\ rpc = "ready"
    /\ entry \in Entries
    /\ header \in HeaderLabels
    /\ out = NoRow

\* out = _entry_to_row(e, headers) in _insert_chunk, line 583
MapEntry ==
    /\ rpc = "ready"
    /\ rpc' = "mapped"
    /\ out' = EntryToRow(entry, header)
    /\ UNCHANGED <<entry, header>>
    /\ UNCHANGED othersR

RowNext == MapEntry

\* C29: the raw_json of a mapped row decodes to exactly the record that was
\* mapped, whatever the header column matched.
C29_RawJsonRoundTrip ==
    (rpc = "mapped") => Loads(out.raw_json) = entry

\* a record with a number, a null and a text holding a quote and a
\* backslash, none of whose fields the header matched
C29_Witness ==
    /\ rpc = "mapped"
    /\ header = L_status /\ entry.status = Absent /\ out.value = <<>>
    /\ entry.id = Num(7)
    /\ Len(entry.fields) = 2
    /\ entry.fields[1].v = Str(<<"\\", "\"">>)
    /\ entry.fields[2].v = JNull
    /\ Loads(out.raw_json) = entry

\* the values the stated order allows for header h: the field labelled h;
\* else a field whose normalized label is that of h; else the top-level
\* attribute (the id also under a normalized name or the ext_id alias);
\* else the empty text
Stated(e, h) ==
    LET f == e.fields
        hn == NormKey(h)
        txt(v) == IF v = JNull THEN <<>> ELSE PyStr(v)
    IN  IF HasKey(f, h) THEN {txt(Get(f, h))}
        ELSE IF HasNorm(f, hn)
        THEN {txt(f[i].v) : i \in {j \in 1..Len(f) : NormKey(f[j].k) = hn}}
        ELSE IF TopHas(e, h) THEN {txt(TopGet(e, h))}
        ELSE IF hn \in {NormKey(L_id), NormKey(L_ext_id)} /\ e.id # Absent
        THEN {txt(e.id)}
        ELSE {<<>>}

\* C30: the value of a header column is taken in the order exact label,
\* normalized label, top-level attribute, empty text.
C30_LookupOrder ==
    (rpc = "mapped") => out.value \in Stated(entry, header)

(***************************************************************************)
(* Diagnostic output: the debug line of memento_sdk._get_with_backoff and  *)
(* the messages of _raise_on_404                                           *)
(***************************************************************************)

\* the value of memento.token, and the text the log puts in its place
Secret == "s3cr3t"
Redacted == "***"

\* a text is the sequence of its parts; a query or a params dict is written
\* key, value, key, value, ...
TokenParams == <<"token", Secret>>

\* the requests of fetch_all_entries_full: the first one and the ones built
\* from a page token, an offset or a page number carry the token in params
\* (lines 234, 309, 321, 327); a followed next-link has it in the query of
\* the url, as served or re-attached, and params = None (lines 294-301)
DiagRequests ==
    {[url |-> <<"/libraries/L/entries">>, params |-> TokenParams \o <<"limit", "100">>],
     [url |-> <<"/libraries/L/entries">>,
      params |-> TokenParams \o <<"limit", "100", "pageToken", "t1">>],
     [url |-> <<"/libraries/L/entries">>,
      params |-> TokenParams \o <<"limit", "100", "offset", "100">>],
     [url |-> <<"/libraries/L/entries">>,
      params |-> TokenParams \o <<"limit", "100", "page", "1">>],
     [url |-> <<"/libraries/L/entries", "?", "cursor", "c1">> \o TokenParams,
      params |-> <<>>],
     [url |-> <<"/libraries/L/entries", "?">> \o TokenParams \o <<"cursor", "c1">>,
      params |-> <<>>]}

NoRequest == [url |-> <<>>, params |-> <<>>]

\* lines 17-20: _p = dict(params or {}); if "token" in _p: _p["token"] = "***"
RedactParams(p) ==
    [i \in 1..Len(p) |-> IF i > 1 /\ i % 2 = 0 /\ p[i - 1] = "token" THEN Redacted ELSE p[i]]

\* line 22: f"SDK -> GET {url} params={_p} try={tries+1}/{max_tries}"
LogLine(q, n) ==
    <<"SDK GET">> \o q.url \o <<"params=">> \o RedactParams(q.params) \o <<"try=", Digit(n)>>

\* r.url: the url requests sent, the params encoded into its query
FinalUrl(q) == q.url \o q.params

\* lines 181-183: the RuntimeError for a 404 names r.url; for another error
\* status r.raise_for_status() raises HTTPError "... for url: {r.url}"
ErrorMessage(st, q) ==
    IF st = 404 THEN <<"Memento API ha risposto 404", "URL:", "GET">> \o FinalUrl(q)
    ELSE <<"Error for url:">> \o FinalUrl(q)

\* the statuses an attempt is answered with
AnswerStatuses == {200, 401, 404, 503}

Leaks(text) == \E i \in 1..Len(text) : text[i] = Secret

DiagInit ==
    /\ dpc = "idle"
    /\ dtry = 0
    /\ dstatus = 0
    /\ dreq = NoRequest
    /\ debug = FALSE
    /\ diag = {}

\* a caller hands a request to _get_with_backoff
DiagCall ==
    /\ dpc = "idle"
    /\ dpc' = "attempt"
    /\ dreq' \in DiagRequests
    /\ debug' \in BOOLEAN
    /\ UNCHANGED <<dtry, dstatus, diag>>
    /\ UNCHANGED othersD

\* one turn of the loop of _get_with_backoff: the debug line, the request,
\* and the return or the retry: lines 15-37
DiagAttempt ==
    /\ dpc = "attempt"
    /\ \E st \in AnswerStatuses :
         /\ diag' = IF debug THEN diag \cup {LogLine(dreq, dtry + 1)} ELSE diag
         /\ IF IsRetryable(st) /\ dtry + 1 < MaxTries
            THEN /\ dtry' = dtry + 1
                 /\ UNCHANGED <<dpc, dstatus>>
            ELSE /\ dpc' = "returned"
                 /\ dstatus' = st
                 /\ dtry' = dtry
    /\ UNCHANGED <<dreq, debug>>
    /\ UNCHANGED othersD

\* the response is handed to _raise_on_404: lines 180-183
DiagRaise ==
    /\ dpc = "returned"
    /\ dpc' = "answered"
    /\ diag' = IF dstatus >= 400 THEN diag \cup {ErrorMessage(dstatus, dreq)} ELSE diag
    /\ UNCHANGED <<dtry, dstatus, dreq, debug>>
    /\ UNCHANGED othersD

\* the caller goes on to its next request
DiagEnd ==
    /\ dpc = "answered"
    /\ dpc' = "idle"
    /\ dtry' = 0
    /\ dstatus' = 0
    /\ dreq' = NoRequest
    /\ debug' = FALSE
    /\ diag' = {}
    /\ UNCHANGED othersD

DiagNext == DiagCall \/ DiagAttempt \/ DiagRaise \/ DiagEnd

\* C31: no text printed by the debug log or raised for a failed response
\* holds the credential token in clear.
C31_NoTokenInDiagnostics ==
    \A text \in diag : ~Leaks(text)

(***************************************************************************)
(* Capability probing: memento_sdk.probe_capabilities, and the parameters  *)
(* fetch_incremental builds from it                                        *)
(***************************************************************************)

\* most page requests of one fetch explored
MaxPageReqs == 2

\* the probe requests in the order of lines 345-371
SortKeys == <<"modifiedTime", "updated_at", "updated", "tempo", "time">>
ProbePlan ==
    <<"base">> \o SortKeys \o <<"updatedAfter", "modifiedAfter", "createdAfter", "since",
                               "pageToken">>
FirstSort == 2
FirstUpdated == 7
FirstCreated == 9
PageTokenProbe == 11

\* what _get_with_backoff gives for a probe request: a response with this
\* status, or (NetFail) the exception of the last failed attempt, line 45
NetFail == 0
ProbeOutcomes(i) ==
    IF i = 1 THEN {200, NetFail}
    ELSE IF i < PageTokenProbe THEN {200, 400, NetFail}
    ELSE {200, 400, 404, 503, NetFail}

NoAnswers == [p \in {} |-> 0]

\* lines 337-343
NoCaps ==
    [accepts_sort |-> FALSE, sort_key |-> "None", accepts_updatedAfter |-> FALSE,
     accepts_createdAfter |-> FALSE, accepts_pageToken |-> FALSE]

\* the capability record after the probe at index i was answered with st
CapsAfter(c, i, st) ==
    IF i = 1 THEN c
    ELSE IF i < FirstUpdated
    THEN IF st < 400 THEN [c EXCEPT !.accepts_sort = TRUE, !.sort_key = ProbePlan[i]] ELSE c
    ELSE IF i < FirstCreated
    THEN IF st < 400 THEN [c EXCEPT !.accepts_updatedAfter = TRUE] ELSE c
    ELSE IF i < PageTokenProbe
    THEN IF st < 400 THEN [c EXCEPT !.accepts_createdAfter = TRUE] ELSE c
    ELSE IF st \in {200, 400, 404} THEN [c EXCEPT !.accepts_pageToken = TRUE] ELSE c

\* the index of the next probe: a loop ends (break) at its first success
NextProbe(i, st) ==
    IF i = 1 THEN FirstSort
    ELSE IF i < FirstUpdated THEN (IF st < 400 THEN FirstUpdated ELSE i + 1)
    ELSE IF i < FirstCreated THEN (IF st < 400 THEN FirstCreated ELSE i + 1)
    ELSE IF i < PageTokenProbe THEN (IF st < 400 THEN PageTokenProbe ELSE i + 1)
    ELSE PageTokenProbe + 1

\* lines 384-393 and 433-441, 450-458: the parameter names of a page
\* request; extra is the paging parameter of a later page
PageParams(c, given, extra) ==
    {"token", "limit"}
        \cup (IF given /\ c.accepts_updatedAfter THEN {"updatedAfter"}
              ELSE IF given /\ c.accepts_createdAfter THEN {"createdAfter"}
              ELSE {})
        \cup (IF c.accepts_sort /\ c.sort_key # "None" THEN {"sort"} ELSE {})
        \cup extra

ProbeInit ==
    /\ ppc = "idle"
    /\ pidx = 1
    /\ answers = NoAnswers
    /\ caps = NoCaps
    /\ wm = FALSE
    /\ sent = <<>>

\* fetch_incremental is called and calls probe_capabilities: lines 375-379
ProbeStart ==
    /\ ppc = "idle"
    /\ ppc' = "probing"
    /\ wm' \in BOOLEAN
    /\ UNCHANGED <<pidx, answers, caps, sent>>
    /\ UNCHANGED othersP

\* one probe request and what is recorded from its answer; the exception of
\* a request whose attempts all failed is not caught
ProbeStep ==
    /\ ppc = "probing"
    /\ pidx <= PageTokenProbe
    /\ \E st \in ProbeOutcomes(pidx) :
         /\ answers' = [p \in DOMAIN answers \cup {ProbePlan[pidx]} |->
                          IF p = ProbePlan[pidx] THEN st ELSE answers[p]]
         /\ IF st = NetFail
            THEN /\ ppc' = "raised"
                 /\ UNCHANGED <<pidx, caps>>
            ELSE /\ caps' = CapsAfter(caps, pidx, st)
                 /\ pidx' = NextProbe(pidx, st)
                 /\ ppc' = IF pidx' > PageTokenProbe THEN "probed" ELSE "probing"
    /\ UNCHANGED <<wm, sent>>
    /\ UNCHANGED othersP

\* the first page request of fetch_incremental: lines 384-399
PageFirst ==
    /\ ppc = "probed"
    /\ ppc' = "paging"
    /\ sent' = <<PageParams(caps, wm, {})>>
    /\ UNCHANGED <<pidx, answers, caps, wm>>
    /\ UNCHANGED othersP

\* a later page request, by page token or by offset: lines 429-460
PageMore ==
    /\ ppc = "paging"
    /\ Len(sent) < MaxPageReqs
    /\ \E extra \in {{"pageToken"}, {"offset"}} :
         sent' = Append(sent, PageParams(caps, wm, extra))
    /\ UNCHANGED <<ppc, pidx, answers, caps, wm>>
    /\ UNCHANGED othersP

\* the fetch returns, or the exception of a probe request has left it
ProbeEnd ==
    /\ ppc \in {"paging", "raised"}
    /\ ppc' = "idle"
    /\ pidx' = 1
    /\ answers' = NoAnswers
    /\ caps' = NoCaps
    /\ wm' = FALSE
    /\ sent' = <<>>
    /\ UNCHANGED othersP

ProbeNext == ProbeStart \/ ProbeStep \/ PageFirst \/ PageMore \/ ProbeEnd

Asked(p) == p \in DOMAIN answers

\* C32: probe_capabilities never raises, and a probe request that failed
\* leaves its capability absent.
C32_ProbeNeverRaises ==
    /\ ppc # "raised"
    /\ (ppc \in {"probed", "paging"}) =>
          /\ (answers["pageToken"] >= 400 => ~caps.accepts_pageToken)
          /\ ((\A i \in FirstSort..FirstUpdated - 1 : answers[ProbePlan[i]] >= 400)
                 => ~caps.accepts_sort)

\* C36: a capability is recorded as present only if a probe request for it
\* was answered with a status below 400.
C36_PresentOnlyIfAccepted ==
    (ppc \in {"probed", "paging"}) =>
        /\ caps.accepts_pageToken => answers["pageToken"] < 400
        /\ caps.accepts_sort => \E i \in FirstSort..FirstUpdated - 1 :
              Asked(ProbePlan[i]) /\ answers[ProbePlan[i]] < 400
        /\ caps.accepts_updatedAfter => \E p \in {"updatedAfter", "modifiedAfter"} :
              Asked(p) /\ answers[p] < 400
        /\ caps.accepts_createdAfter => \E p \in {"createdAfter", "since"} :
              Asked(p) /\ answers[p] < 400

\* C37: every page request sends the same filter and sort parameters, and a
\* filter parameter it sends is a name whose probe was accepted.
C37_FilterNameWasAccepted ==
    \A k \in 1..Len(sent) :
        /\ sent[k] \ {"pageToken", "offset"} = sent[1]
        /\ \A p \in sent[k] \cap {"updatedAfter", "createdAfter"} : answers[p] < 400

(***************************************************************************)
(* Fail-fast page write: _insert_chunk of import_library_incremental       *)
(***************************************************************************)

\* most rows of a page, and the ids they are drawn from
MaxChunk == 2
ChunkIds == 1..MaxChunk

\* the values a header column is mapped to: texts as sequences of characters
Cells == {<<>>, <<" ">>, <<"x">>}

\* a mapped row: its id and the values of the two header columns
MappedRows == [id : ChunkIds, vals : [1..2 -> Cells]]

\* the pages: rows of distinct ids
Pages ==
    {c \in UNION {[1..n -> MappedRows] : n \in 1..MaxChunk} :
        \A i, j \in 1..Len(c) : i # j => c[i].id # c[j].id}

\* str.strip()
RECURSIVE StripLeft(_)
StripLeft(s) == IF s # <<>> /\ Head(s) = " " THEN StripLeft(Tail(s)) ELSE s
RECURSIVE StripRight(_)
StripRight(s) ==
    IF s # <<>> /\ s[Len(s)] = " " THEN StripRight(SubSeq(s, 1, Len(s) - 1)) ELSE s
Strip(s) == StripRight(StripLeft(s))

\* lines 587-596: has_any, some header value is not blank
HasAny(rw) == \E h \in 1..2 : Strip(rw.vals[h]) # <<>>

\* only the first row of the page is tested
FirstEmpty_OnlyFirstRow(c, enr) == IF enr /\ ~HasAny(c[1]) THEN 1 ELSE 0

\* the index of the first row that makes the loop raise, 0 if none: line 597
FirstEmpty(c, enr) ==
    IF enr /\ \E k \in 1..Len(c) : ~HasAny(c[k])
    THEN CHOOSE k \in 1..Len(c) :
            ~HasAny(c[k]) /\ \A j \in 1..(k - 1) : HasAny(c[j])
    ELSE 0

\* INSERT OR REPLACE of the rows, in order, on a table keyed by id
RECURSIVE WriteRows(_, _)
WriteRows(tbl, rows) ==
    IF rows = <<>> THEN tbl
    ELSE WriteRows([tbl EXCEPT ![Head(rows).id] = <<Head(rows).vals>>], Tail(rows))

\* what is written inside the savepoint when row k raises: the rows before it
\* are only collected in vals, executemany (line 603) is not reached
WrittenAtRaise(tbl, c, k) == tbl

\* a table with no row: each id maps to the empty sequence
EmptyTable == [i \in ChunkIds |-> <<>>]

InsertInit ==
    /\ ipc = "idle"
    /\ ichunk = <<>>
    /\ enrich = FALSE
    /\ itable = EmptyTable

\* _insert_chunk(chunk) and the commit of line 622: lines 572-608
InsertChunkCall ==
    /\ ipc = "idle"
    /\ \E c \in Pages, enr \in BOOLEAN :
         LET k == FirstEmpty(c, enr)
         IN  /\ ichunk' = c
             /\ enrich' = enr
             /\ IF k # 0
                THEN /\ ipc' = "raised"
                     /\ itable' = RollbackToSavepoint(itable, WrittenAtRaise(itable, c, k))
                ELSE /\ ipc' = "released"
                     /\ itable' = WriteRows(itable, c)
    /\ UNCHANGED othersI

\* the next page, or the next run
InsertEnd ==
    /\ ipc # "idle"
    /\ ipc' = "idle"
    /\ ichunk' = <<>>
    /\ enrich' = FALSE
    /\ UNCHANGED itable
    /\ UNCHANGED othersI

InsertNext == InsertChunkCall \/ InsertEnd

Blank(vals) == \A h \in 1..2 : Strip(vals[h]) = <<>>

\* C33: a call of _insert_chunk with enrichment enabled on a page that holds
\* a row whose header values are all blank raises and leaves the table as it
\* was; a call that returns has written no such row.
C33_Step ==
    (ipc = "idle" /\ ipc' # "idle" /\ enrich') =>
        IF \E k \in 1..Len(ichunk') : Blank(ichunk'[k].vals)
        THEN ipc' = "raised" /\ itable' = itable
        ELSE /\ ipc' = "released"
             /\ \A i \in ChunkIds :
                   itable'[i] # itable[i] => itable'[i] # <<>> /\ ~Blank(itable'[i][1])

C33_EmptyRowAbortsPage == [][C33_Step]_vars

\* a page whose second row is blank was refused with enrichment enabled, and
\* its first, non-blank row is not in the table
C33_Witness ==
    /\ ipc = "raised" /\ enrich
    /\ Len(ichunk) = 2
    /\ ~Blank(ichunk[1].vals) /\ Blank(ichunk[2].vals)
    /\ itable[ichunk[1].id] = <<>>

(***************************************************************************)
(* Enrichment candidates: the detail pass of memento_sdk.fetch_incremental *)
(* as import_library_incremental drives it                                 *)
(***************************************************************************)

\* the local rows of a library: an id has a row only if the record exists,
\* and the stored time is not later than the remote one
Locals(rem) == {l \in [RecIds -> 0..MaxT] : \A i \in RecIds : l[i] <= rem[i]}

\* lines 384-390: the records listed for a fetch from the watermark w; the
\* filter is sent only when there is a watermark and the probe accepted it
Listed(rem, w, filter) ==
    {i \in RecIds : rem[i] # 0 /\ (w # 0 /\ filter => rem[i] > w)}

\* lines 464-504: when the first list item has no fields, a detail request
\* for every listed item that has an id
DetailRequests(rem, w, filter, lean) ==
    IF lean THEN Listed(rem, w, filter) ELSE {}

EnrichInit ==
    /\ xpc = "idle"
    /\ xremote = [i \in RecIds |-> 0]
    /\ xlocal = [i \in RecIds |-> 0]
    /\ xwm = 0
    /\ xfilter = FALSE
    /\ xlean = FALSE
    /\ detailed = {}

\* one call of fetch_incremental(library_id, modified_after_iso=checkpoint)
EnrichFetch ==
    /\ xpc = "idle"
    /\ xpc' = "fetched"
    /\ \E rem \in Remotes :
         /\ xremote' = rem
         /\ xlocal' \in Locals(rem)
    /\ xwm' \in 0..MaxT
    /\ xfilter' \in BOOLEAN
    /\ xlean' \in BOOLEAN
    /\ detailed' = DetailRequests(xremote', xwm', xfilter', xlean')
    /\ UNCHANGED othersX

\* the rows are handed to the importer
EnrichEnd ==
    /\ xpc = "fetched"
    /\ xpc' = "idle"
    /\ xremote' = [i \in RecIds |-> 0]
    /\ xlocal' = [i \in RecIds |-> 0]
    /\ xwm' = 0
    /\ xfilter' = FALSE
    /\ xlean' = FALSE
    /\ detailed' = {}
    /\ UNCHANGED othersX

EnrichNext == EnrichFetch \/ EnrichEnd

\* C35: a detail request is issued for a record only if it has no local row
\* or its remote modification time is later than the stored one.
C35_OnlyNewOrNewerDetailed ==
    \A i \in detailed : xlocal[i] = 0 \/ xremote[i] > xlocal[i]

\* ------------------------------------------------------------------
\* fetch_entry_detail (memento_sdk.py 513-546)
\* ------------------------------------------------------------------

\* The candidate endpoints, most likely first (523-527).
Candidates == <<"libraries/L/entries/E", "libraries/L/entry/E", "entries/E">>

\* What _get_with_backoff can hand back for one candidate: a success, a
\* client error returned at once, a retryable error left after the last try,
\* or the network exception re-raised (NetFail).
DetailStatuses == {200, 401, 404, 503, NetFail}

\* Response bodies: two JSON documents and one text that is not JSON.
Bodies == {[json |-> TRUE, text |-> "a"], [json |-> TRUE, text |-> "b"],
           [json |-> FALSE, text |-> "x"]}

\* r.json(), or {"raw": r.text} when the body does not parse (533-536).
BodyOf(b) == IF b.json THEN [kind |-> "dict", v |-> b.text]
             ELSE [kind |-> "raw", v |-> b.text]

NoOutcome == [kind |-> "none"]
Raised == [kind |-> "raise"]
Returned(b) == [kind |-> "return", body |-> BodyOf(b)]

\* The loop goes on to the next candidate only on 404 (538-542).
TryNextAfter_AnyError(s) == s # NetFail /\ s >= 400

TryNextAfter(s) == s = 404

\* The outcome of the call once candidate i has answered (s, b): the body on
\* success, an exception on a network failure or a non-404 error, an
\* exception after the last candidate's 404 (543-546), nothing yet otherwise.
OutcomeAfter(i, s, b) ==
  IF s = NetFail THEN Raised
  ELSE IF s < 400 THEN Returned(b)
  ELSE IF ~TryNextAfter(s) THEN Raised
  ELSE IF i = Len(Candidates) THEN Raised
  ELSE NoOutcome

DetailInit ==
  /\ fpc = "idle"
  /\ tried = <<>>
  /\ replies = <<>>
  /\ got = NoOutcome

DetailCall ==
  /\ fpc = "idle"
  /\ fpc' = "loop"
  /\ UNCHANGED <<tried, replies, got>>
  /\ UNCHANGED othersF

\* One turn of the loop over the candidates (529-542).
DetailRequest ==
  /\ fpc = "loop"
  /\ LET i == Len(tried) + 1
     IN \E s \in DetailStatuses, b \in Bodies :
          /\ tried' = Append(tried, Candidates[i])
          /\ replies' = Append(replies, [status |-> s, body |-> b])
          /\ got' = OutcomeAfter(i, s, b)
          /\ fpc' = IF OutcomeAfter(i, s, b) = NoOutcome THEN "loop" ELSE "done"
  /\ UNCHANGED othersF

DetailEnd ==
  /\ fpc = "done"
  /\ fpc' = "idle"
  /\ tried' = <<>>
  /\ replies' = <<>>
  /\ got' = NoOutcome
  /\ UNCHANGED othersF

DetailNext == DetailCall \/ DetailRequest \/ DetailEnd

\* C38: the candidate paths are requested in their listed order; candidate
\* i+1 is requested only after candidate i answered 404; a returned value is
\* the body of the first candidate that answered below 400; the first
\* non-404 error (or network failure) raises with no further candidate
\* requested; and three 404 answers raise.
C38_CandidatesInOrder ==
  LET n == Len(tried) IN
  /\ n <= Len(Candidates)
  /\ \A j \in 1..n : tried[j] = Candidates[j]
  /\ \A j \in 1..n : j < n => replies[j].status = 404
  /\ got.kind = "return" =>
       /\ n >= 1
       /\ replies[n].status # NetFail /\ replies[n].status < 400
       /\ got.body = BodyOf(replies[n].body)
  /\ (n >= 1 /\ (replies[n].status = NetFail
                 \/ (replies[n].status >= 400 /\ replies[n].status # 404)))
       => got = Raised /\ fpc = "done"
  /\ (n = Len(Candidates) /\ replies[n].status = 404) => got = Raised
  /\ got = NoOutcome => fpc # "done"

C38_Witness ==
  /\ Len(tried) = 3
  /\ replies[1].status = 404 /\ replies[2].status = 404
  /\ replies[3].status = 200
  /\ got = Returned(replies[3].body)

(***************************************************************************)
(* Checkpoint table: ensure_sync_state_table, load_sync_state,             *)
(* save_sync_state, as the sections of run_batch use them                  *)
(***************************************************************************)

\* libraries the sections of a batch refer to
MaxLibs == 3

LibraryIds == 1..MaxLibs

\* SELECT last_modified_remote FROM memento_sync WHERE library_id=?;
\* fetchone(): the first matching row, None (0) without one (lines 78-85)
load_sync_state(tbl, lib) ==
    LET hits == {k \in 1..Len(tbl) : tbl[k].library_id = lib}
    IN  IF hits = {} THEN 0
        ELSE tbl[CHOOSE k \in hits : \A h \in hits : k <= h].last_modified_remote

\* a plain INSERT: the conflict on library_id is not handled
save_sync_state_PlainInsert(tbl, lib, v) ==
    Append(tbl, [library_id |-> lib, last_modified_remote |-> v])

\* INSERT ... ON CONFLICT(library_id) DO UPDATE SET last_modified_remote =
\* excluded.last_modified_remote (lines 87-98); library_id is the PRIMARY KEY
\* of the table (lines 68-75)
save_sync_state(tbl, lib, v) ==
    IF \E k \in 1..Len(tbl) : tbl[k].library_id = lib
    THEN [k \in 1..Len(tbl) |->
            IF tbl[k].library_id = lib
            THEN [tbl[k] EXCEPT !.last_modified_remote = v]
            ELSE tbl[k]]
    ELSE Append(tbl, [library_id |-> lib, last_modified_remote |-> v])

CheckpointsInit ==
    /\ ypc = "idle"
    /\ library_id = 0
    /\ memento_sync = <<>>
    /\ loaded = 0

\* run_batch takes a section and calls import_library_incremental, which
\* ensures the checkpoint table and loads the library's checkpoint
\* (lines 646-672, 525-570)
SectionImport ==
    /\ ypc = "idle"
    /\ \E lib \in LibraryIds :
         /\ library_id' = lib
         /\ loaded' = load_sync_state(memento_sync, lib)
    /\ ypc' = "import"
    /\ UNCHANGED memento_sync
    /\ UNCHANGED othersY

\* a page is committed and its last record has a modification time:
\* save_sync_state(conn, library_id, last_mod), lines 625-630
SavePage ==
    /\ ypc = "import"
    /\ \E last_mod \in 1..MaxT :
         memento_sync' = save_sync_state(memento_sync, library_id, last_mod)
    /\ UNCHANGED <<ypc, library_id, loaded>>
    /\ UNCHANGED othersY

\* the import returns or raises; run_batch goes to the next section
SectionEnd ==
    /\ ypc = "import"
    /\ ypc' = "idle"
    /\ library_id' = 0
    /\ loaded' = 0
    /\ UNCHANGED memento_sync
    /\ UNCHANGED othersY

CheckpointsNext == SectionImport \/ SavePage \/ SectionEnd

\* memento_sync holds at most one row per library_id
C40_OneRowPerLibrary ==
    \A i, j \in 1..Len(memento_sync) :
        i # j => memento_sync[i].library_id # memento_sync[j].library_id

\* a step changes the checkpoint of no library but the one being imported
C40_Step ==
    \A lib \in LibraryIds :
        load_sync_state(memento_sync', lib) # load_sync_state(memento_sync, lib)
            => (ypc = "import" /\ lib = library_id)

\* C40: save_sync_state for one library_id leaves the checkpoint of every
\* other library_id unchanged, and memento_sync holds at most one row per
\* library_id after any sequence of saves: the sections of a batch never
\* change another library's checkpoint.
C40_SaveTouchesOneLibrary == [](C40_OneRowPerLibrary) /\ [][C40_Step]_vars

\* the import of one library has overwritten its own checkpoint while two
\* other libraries keep theirs
C40_Witness ==
    /\ ypc = "import"
    /\ Len(memento_sync) = 3
    /\ loaded # 0
    /\ load_sync_state(memento_sync, library_id) # loaded

Init ==
    BackoffInit /\ WalkerInit /\ SyncInit /\ UpsertInit /\ BatchInit /\ AutodetectInit
        /\ SchemaInit /\ RowIdle /\ DiagInit /\ ProbeInit /\ InsertInit /\ EnrichInit
        /\ DetailInit /\ CheckpointsInit
Next ==
    BackoffNext \/ WalkerNext \/ SyncNext \/ UpsertNext \/ BatchNext \/ AutodetectNext
        \/ SchemaNext \/ RowNext \/ DiagNext \/ ProbeNext \/ InsertNext \/ EnrichNext
        \/ DetailNext \/ CheckpointsNext
Spec == Init /\ [][Next]_vars

\* a library with no record, for the specifications that leave the engine idle
NoRemote == [i \in RecIds |-> 0]
SyncIdle ==
    /\ remote = NoRemote
    /\ status = AllActive
    /\ schema = "fallback"
    /\ serverFilter = FALSE
    /\ SyncQuiet

\* one component at a time
InitIdle ==
    BackoffInit /\ WalkerInit /\ SyncIdle /\ UpsertInit /\ BatchInit /\ AutodetectInit
        /\ SchemaInit /\ RowIdle /\ DiagInit /\ ProbeInit /\ InsertInit /\ EnrichInit
        /\ DetailInit /\ CheckpointsInit
SpecBackoff == InitIdle /\ [][BackoffNext]_vars
SpecWalker == InitIdle /\ [][WalkerNext]_vars
SpecSync == Init /\ [][SyncNext]_vars
SpecUpsert == Init /\ [][UpsertNext]_vars

\* the sync engine on libraries that hold records flagged as trash
InitFlagged ==
    BackoffInit /\ WalkerInit /\ SyncInitFlagged /\ UpsertInit /\ BatchInit
        /\ AutodetectInit /\ SchemaInit /\ RowIdle /\ DiagInit /\ ProbeInit /\ InsertInit
        /\ EnrichInit /\ DetailInit /\ CheckpointsInit
SpecSyncFlagged == InitFlagged /\ [][SyncNext]_vars
SpecBatch == InitIdle /\ [][BatchNext]_vars
SpecAutodetect == InitIdle /\ [][AutodetectNext]_vars
SpecSchema == InitIdle /\ [][SchemaNext]_vars
InitRow ==
    BackoffInit /\ WalkerInit /\ SyncIdle /\ UpsertInit /\ BatchInit /\ AutodetectInit
        /\ SchemaInit /\ RowInit /\ DiagInit /\ ProbeInit /\ InsertInit /\ EnrichInit
        /\ DetailInit /\ CheckpointsInit
SpecRow == InitRow /\ [][RowNext]_vars
SpecDiag == InitIdle /\ [][DiagNext]_vars
SpecProbe == InitIdle /\ [][ProbeNext]_vars
SpecInsert == InitIdle /\ [][InsertNext]_vars
SpecEnrich == InitIdle /\ [][EnrichNext]_vars
SpecDetail == InitIdle /\ [][DetailNext]_vars
SpecCheckpoints == InitIdle /\ [][CheckpointsNext]_vars
====
